---- MODULE Spec2Model ----
(***************************************************************************)
(* Model of the concurrent B+ tree of src/src/bplus_tree.rs: the node      *)
(* graph, the per-node reader/writer latches (held exactly while a guard   *)
(* exists), the append-only chunk files and the insert / get operations.   *)
(* One action is one stretch of code between two latch acquisitions: the   *)
(* acquisition and everything the task does up to its next await.          *)
(*                                                                         *)
(* BPlus::latch is no variable: insert, optimistic_insert and get build    *)
(* the future self.latch.write() / self.latch.read() and drop it without   *)
(* awaiting it, so they never hold the tree-level latch; save alone awaits *)
(* it and is always granted it.  BPlus::root is assigned in the            *)
(* constructor only; root growth rewrites the root node in place under its *)
(* write guard.                                                            *)
(*                                                                         *)
(* Spec and SeqSpec run insert and get on one tree; StoreSpec runs the     *)
(* chunk writes alone; PersistSpec adds save, running beside the inserts   *)
(* of a task, and load; StorageSpec runs the calls of BPlusStorage beside  *)
(* the closures its insert spawns; LiveSpec runs insert, get and save      *)
(* together under weak fairness of their steps.  GrowSpec runs inserts on  *)
(* trees about to grow a root, CancelSpec drops insert futures at their    *)
(* awaits, NewSpec runs the constructor on directories that hold segments, *)
(* MinSpec runs the tree of minimal degree 1.                              *)
(*                                                                         *)
(* RsSpec runs insert, delete and find of the earlier single-threaded tree *)
(* of src/src/BPlus.rs, whose root stays a leaf: insert sets self.root     *)
(* back to the node it inserted into after it has built a new root.        *)
(***************************************************************************)
EXTENDS Integers, Sequences, FiniteSets, TLC

VARIABLES
    t,            \* BPlus::t
    nodes,        \* the node graph: nodes[id] is the Node behind Link id
    files,        \* the data directory: files[n + 1] is the content of segment n
    file_number,  \* BPlus::file_number
    offset,       \* BPlus::offset
    bplus,        \* BPlus::path, BPlus::max_file_size, BPlus::current_file
    proc,         \* the local state of every task
    script,       \* inserts still to be issued, one after another, by task 1
    keyset,       \* the keys the tasks draw from
    opsLeft,      \* operations the tasks may still start
    called,       \* history: key -> bytes of the latest insert call
    lin,          \* history: key -> bytes of the latest leaf mutation
    completed,    \* history: keys of the inserts that have returned
    racy,         \* history: keys with two insert calls in flight at one time
    overlapped,   \* history: some operation started while another was in flight
    handles,      \* history: every chunk write, in order: its handle and its bytes
    snapshot,     \* the file BPlus::save writes: a SerializableBPlus, or NoSnapshot
    saver,        \* the local state of the task running BPlus::save
    loader,       \* how BPlus::load ended: "none" until it is called
    keys_set,     \* BPlusStorage::keys_set
    spawned,      \* the tasks BPlusStorage::insert spawned that have not ended
    caller,       \* the thread that calls BPlusStorage
    bplus_rs,     \* the BPlus of BPlus.rs, the earlier tree: its t and its root
    calls_rs      \* history: the calls made on that tree and what find returned last

\* what the operations of the tree do not touch
aux == <<handles, snapshot, saver, loader, keys_set, spawned, caller, bplus_rs, calls_rs>>

vars == <<t, nodes, files, file_number, offset, bplus, proc, script, keyset, opsLeft,
          called, lin, completed, racy, overlapped, aux>>

(* ------------------------------ bounds -------------------------------- *)

NProcs == 2
MaxKey == 4
MaxOps == 3
max_file_size == 2

Procs == 1..NProcs
Values == {<<1>>, <<2, 2>>}

\* The root Link: BPlus::root is assigned once, in the constructor.
Root == 1
NoLink == 0

(* ----------------------------- sequences ------------------------------ *)

InsertAt(s, pos, x) == SubSeq(s, 1, pos) \o <<x>> \o SubSeq(s, pos + 1, Len(s))

Last(s) == s[Len(s)]

ButLast(s) == SubSeq(s, 1, Len(s) - 1)

\* slice::binary_search on positions lo..hi-1 (0-based): Ok(pos) or Err(pos)
RECURSIVE binary_search_from(_, _, _, _)
binary_search_from(keys, key, lo, hi) ==
    IF lo >= hi THEN [ok |-> FALSE, pos |-> lo]
    ELSE LET mid == lo + ((hi - lo) \div 2) IN
         IF keys[mid + 1] = key THEN [ok |-> TRUE, pos |-> mid]
         ELSE IF keys[mid + 1] < key THEN binary_search_from(keys, key, mid + 1, hi)
         ELSE binary_search_from(keys, key, lo, mid)

binary_search(keys, key) == binary_search_from(keys, key, 0, Len(keys))

EntryKeys(entries) == [i \in 1..Len(entries) |-> entries[i].key]

(* ----------------------------- chunk store ---------------------------- *)

ChunkHandler(path, off, size) == [path |-> path, offset |-> off, size |-> size]

\* positional write that lands one byte past the position asked for
write_at_shifted(content, bytes, off) ==
    LET end == off + 1 + Len(bytes)
        len == IF end > Len(content) THEN end ELSE Len(content)
    IN [i \in 1..len |->
           IF i > off + 1 /\ i <= end THEN bytes[i - off - 1]
           ELSE IF i <= Len(content) THEN content[i] ELSE 0]

\* positional write of bytes at off into a file content
write_at(content, bytes, off) ==
    LET end == off + Len(bytes)
        len == IF end > Len(content) THEN end ELSE Len(content)
    IN [i \in 1..len |->
           IF i > off /\ i <= end THEN bytes[i - off]
           ELSE IF i <= Len(content) THEN content[i] ELSE 0]

\* chunk write that hands out the cursor after the write as the handle's offset
get_chunk_handler_late_offset(fs, fnum, off, value) ==
    LET rotate == off >= bplus.max_file_size
        fnum1 == IF rotate THEN fnum + 1 ELSE fnum
        off1 == IF rotate THEN 0 ELSE off
        fs1 == IF rotate
               THEN [i \in 1..(IF fnum1 + 1 > Len(fs) THEN fnum1 + 1 ELSE Len(fs)) |->
                        IF i = fnum1 + 1 THEN <<>> ELSE fs[i]]
               ELSE fs
        current_file == IF rotate THEN "create" ELSE bplus.current_file
        ok == current_file = "create"
    IN [ok |-> ok,
        files |-> IF ok THEN [fs1 EXCEPT ![fnum1 + 1] = write_at(@, value, off1)] ELSE fs1,
        file_number |-> fnum1,
        offset |-> IF ok THEN off1 + Len(value) ELSE off1,
        current_file |-> current_file,
        handle |-> ChunkHandler(fnum1, off1 + Len(value), Len(value))]

\* chunk write that rotates when the value would not fit below the limit
get_chunk_handler_fit(fs, fnum, off, value) ==
    LET rotate == off + Len(value) > bplus.max_file_size
        fnum1 == IF rotate THEN fnum + 1 ELSE fnum
        off1 == IF rotate THEN 0 ELSE off
        fs1 == IF rotate
               THEN [i \in 1..(IF fnum1 + 1 > Len(fs) THEN fnum1 + 1 ELSE Len(fs)) |->
                        IF i = fnum1 + 1 THEN <<>> ELSE fs[i]]
               ELSE fs
        current_file == IF rotate THEN "create" ELSE bplus.current_file
        ok == current_file = "create"
    IN [ok |-> ok,
        files |-> IF ok THEN [fs1 EXCEPT ![fnum1 + 1] = write_at(@, value, off1)] ELSE fs1,
        file_number |-> fnum1,
        offset |-> IF ok THEN off1 + Len(value) ELSE off1,
        current_file |-> current_file,
        handle |-> ChunkHandler(fnum1, off1, Len(value))]

\* chunk write that rotates only when the cursor is beyond the limit
get_chunk_handler_rotate_late(fs, fnum, off, value) ==
    LET rotate == off > bplus.max_file_size
        fnum1 == IF rotate THEN fnum + 1 ELSE fnum
        off1 == IF rotate THEN 0 ELSE off
        fs1 == IF rotate
               THEN [i \in 1..(IF fnum1 + 1 > Len(fs) THEN fnum1 + 1 ELSE Len(fs)) |->
                        IF i = fnum1 + 1 THEN <<>> ELSE fs[i]]
               ELSE fs
        current_file == IF rotate THEN "create" ELSE bplus.current_file
        ok == current_file = "create"
    IN [ok |-> ok,
        files |-> IF ok THEN [fs1 EXCEPT ![fnum1 + 1] = write_at(@, value, off1)] ELSE fs1,
        file_number |-> fnum1,
        offset |-> IF ok THEN off1 + Len(value) ELSE off1,
        current_file |-> current_file,
        handle |-> ChunkHandler(fnum1, off1, Len(value))]

\* BPlus::get_chunk_handler: rotate when the cursor reached the limit, write,
\* hand out the handle, advance the cursor.  current_file is "create" for a
\* handle of File::create (write-only) and "open" for one of File::open
\* (read-only): write_at on the latter fails and the call returns the error
get_chunk_handler(fs, fnum, off, value) ==
    LET rotate == off >= bplus.max_file_size
        fnum1 == IF rotate THEN fnum + 1 ELSE fnum
        off1 == IF rotate THEN 0 ELSE off
        fs1 == IF rotate
               THEN [i \in 1..(IF fnum1 + 1 > Len(fs) THEN fnum1 + 1 ELSE Len(fs)) |->
                        IF i = fnum1 + 1 THEN <<>> ELSE fs[i]]
               ELSE fs
        current_file == IF rotate THEN "create" ELSE bplus.current_file
        ok == current_file = "create"
    IN [ok |-> ok,
        files |-> IF ok THEN [fs1 EXCEPT ![fnum1 + 1] = write_at(@, value, off1)] ELSE fs1,
        file_number |-> fnum1,
        offset |-> IF ok THEN off1 + Len(value) ELSE off1,
        current_file |-> current_file,
        handle |-> ChunkHandler(fnum1, off1, Len(value))]

Ok(bytes) == [kind |-> "Ok", bytes |-> bytes]
NotFound == [kind |-> "NotFound", bytes |-> <<>>]
IoError == [kind |-> "IoError", bytes |-> <<>>]
NoResult == [kind |-> "None", bytes |-> <<>>]

\* ChunkHandler::read: open the segment by path, read exactly size bytes at offset
read(fs, h) ==
    IF h.path + 1 > Len(fs) \/ h.offset + h.size > Len(fs[h.path + 1])
    THEN IoError
    ELSE Ok(SubSeq(fs[h.path + 1], h.offset + 1, h.offset + h.size))

(* -------------------------------- nodes -------------------------------- *)

Leaf(entries, next) ==
    [leaf |-> TRUE, keys |-> <<>>, children |-> <<>>, entries |-> entries, next |-> next]

InternalNode(children, keys) ==
    [leaf |-> FALSE, keys |-> keys, children |-> children, entries |-> <<>>, next |-> NoLink]

NoSplit == [some |-> FALSE, link |-> NoLink, median |-> 0]

\* split that cuts a leaf one entry too far to the right
split_uneven(ns, id, tt) ==
    LET n == ns[id]
        new == Len(ns) + 1
    IN IF n.leaf
       THEN LET new_leaf_entries == SubSeq(n.entries, tt + 2, Len(n.entries))
                old == [n EXCEPT !.entries = SubSeq(n.entries, 1, tt + 1), !.next = new]
            IN [nodes |-> Append([ns EXCEPT ![id] = old], Leaf(new_leaf_entries, n.next)),
                sr |-> [some |-> TRUE, link |-> new, median |-> new_leaf_entries[1].key]]
       ELSE LET split_keys == SubSeq(n.keys, tt, Len(n.keys))
                old == [n EXCEPT !.keys = SubSeq(n.keys, 1, tt - 1),
                                 !.children = SubSeq(n.children, 1, tt)]
                new_node == InternalNode(SubSeq(n.children, tt + 1, Len(n.children)),
                                         Tail(split_keys))
            IN [nodes |-> Append([ns EXCEPT ![id] = old], new_node),
                sr |-> [some |-> TRUE, link |-> new, median |-> split_keys[1]]]

\* split whose new leaf does not take over the old leaf's next link
split_unlinked(ns, id, tt) ==
    LET n == ns[id]
        new == Len(ns) + 1
    IN IF n.leaf
       THEN LET new_leaf_entries == SubSeq(n.entries, tt + 1, Len(n.entries))
                old == [n EXCEPT !.entries = SubSeq(n.entries, 1, tt), !.next = new]
            IN [nodes |-> Append([ns EXCEPT ![id] = old], Leaf(new_leaf_entries, NoLink)),
                sr |-> [some |-> TRUE, link |-> new, median |-> new_leaf_entries[1].key]]
       ELSE LET split_keys == SubSeq(n.keys, tt, Len(n.keys))
                old == [n EXCEPT !.keys = SubSeq(n.keys, 1, tt - 1),
                                 !.children = SubSeq(n.children, 1, tt)]
                new_node == InternalNode(SubSeq(n.children, tt + 1, Len(n.children)),
                                         Tail(split_keys))
            IN [nodes |-> Append([ns EXCEPT ![id] = old], new_node),
                sr |-> [some |-> TRUE, link |-> new, median |-> split_keys[1]]]

\* split that moves the median of a leaf up instead of copying it
split_median_moved(ns, id, tt) ==
    LET n == ns[id]
        new == Len(ns) + 1
    IN IF n.leaf
       THEN LET new_leaf_entries == SubSeq(n.entries, tt + 2, Len(n.entries))
                old == [n EXCEPT !.entries = SubSeq(n.entries, 1, tt), !.next = new]
            IN [nodes |-> Append([ns EXCEPT ![id] = old], Leaf(new_leaf_entries, n.next)),
                sr |-> [some |-> TRUE, link |-> new, median |-> n.entries[tt + 1].key]]
       ELSE LET split_keys == SubSeq(n.keys, tt, Len(n.keys))
                old == [n EXCEPT !.keys = SubSeq(n.keys, 1, tt - 1),
                                 !.children = SubSeq(n.children, 1, tt)]
                new_node == InternalNode(SubSeq(n.children, tt + 1, Len(n.children)),
                                         Tail(split_keys))
            IN [nodes |-> Append([ns EXCEPT ![id] = old], new_node),
                sr |-> [some |-> TRUE, link |-> new, median |-> split_keys[1]]]

\* split whose new internal node keeps the median as its first key
split_internal_keeps_median(ns, id, tt) ==
    LET n == ns[id]
        new == Len(ns) + 1
    IN IF n.leaf
       THEN LET new_leaf_entries == SubSeq(n.entries, tt + 1, Len(n.entries))
                old == [n EXCEPT !.entries = SubSeq(n.entries, 1, tt), !.next = new]
            IN [nodes |-> Append([ns EXCEPT ![id] = old], Leaf(new_leaf_entries, n.next)),
                sr |-> [some |-> TRUE, link |-> new, median |-> new_leaf_entries[1].key]]
       ELSE LET split_keys == SubSeq(n.keys, tt, Len(n.keys))
                old == [n EXCEPT !.keys = SubSeq(n.keys, 1, tt - 1),
                                 !.children = SubSeq(n.children, 1, tt)]
                new_node == InternalNode(SubSeq(n.children, tt + 1, Len(n.children)),
                                         split_keys)
            IN [nodes |-> Append([ns EXCEPT ![id] = old], new_node),
                sr |-> [some |-> TRUE, link |-> new, median |-> split_keys[1]]]

\* split that returns the last key of the left leaf as the median of a leaf
split_median_of_left(ns, id, tt) ==
    LET n == ns[id]
        new == Len(ns) + 1
    IN IF n.leaf
       THEN LET new_leaf_entries == SubSeq(n.entries, tt + 1, Len(n.entries))
                old == [n EXCEPT !.entries = SubSeq(n.entries, 1, tt), !.next = new]
            IN [nodes |-> Append([ns EXCEPT ![id] = old], Leaf(new_leaf_entries, n.next)),
                sr |-> [some |-> TRUE, link |-> new, median |-> n.entries[tt].key]]
       ELSE LET split_keys == SubSeq(n.keys, tt, Len(n.keys))
                old == [n EXCEPT !.keys = SubSeq(n.keys, 1, tt - 1),
                                 !.children = SubSeq(n.children, 1, tt)]
                new_node == InternalNode(SubSeq(n.children, tt + 1, Len(n.children)),
                                         Tail(split_keys))
            IN [nodes |-> Append([ns EXCEPT ![id] = old], new_node),
                sr |-> [some |-> TRUE, link |-> new, median |-> split_keys[1]]]

\* Node::split on nodes[id]: the new right sibling is allocated behind a new Link
split(ns, id, tt) ==
    LET n == ns[id]
        new == Len(ns) + 1
    IN IF n.leaf
       THEN LET new_leaf_entries == SubSeq(n.entries, tt + 1, Len(n.entries))
                middle_key == new_leaf_entries[1].key
                new_leaf == Leaf(new_leaf_entries, n.next)
                old == [n EXCEPT !.entries = SubSeq(n.entries, 1, tt), !.next = new]
            IN [nodes |-> Append([ns EXCEPT ![id] = old], new_leaf),
                sr |-> [some |-> TRUE, link |-> new, median |-> middle_key]]
       ELSE LET split_keys == SubSeq(n.keys, tt, Len(n.keys))
                middle_key == split_keys[1]
                new_node_keys == Tail(split_keys)
                new_node_children == SubSeq(n.children, tt + 1, Len(n.children))
                new_node == InternalNode(new_node_children, new_node_keys)
                old == [n EXCEPT !.keys = SubSeq(n.keys, 1, tt - 1),
                                 !.children = SubSeq(n.children, 1, tt)]
            IN [nodes |-> Append([ns EXCEPT ![id] = old], new_node),
                sr |-> [some |-> TRUE, link |-> new, median |-> middle_key]]

\* routing that sends a key equal to a separator to the left child
route_left(keys, key) == binary_search(keys, key).pos

\* the child index chosen at an internal node: Ok(pos) -> pos + 1, Err(pos) -> pos
route(keys, key) ==
    LET r == binary_search(keys, key) IN IF r.ok THEN r.pos + 1 ELSE r.pos

\* leaf mutation that leaves an entry found by the search as it is
leaf_put_no_overwrite(entries, key, value) ==
    LET r == binary_search(EntryKeys(entries), key)
    IN IF r.ok THEN entries ELSE InsertAt(entries, r.pos, [key |-> key, value |-> value])

\* leaf mutation that inserts a new entry also when the search found the key
leaf_put_dup(entries, key, value) ==
    InsertAt(entries, binary_search(EntryKeys(entries), key).pos,
             [key |-> key, value |-> value])

\* the leaf mutation of insert: overwrite on Ok(pos), sorted insert on Err(pos)
leaf_put(entries, key, value) ==
    LET r == binary_search(EntryKeys(entries), key)
        e == [key |-> key, value |-> value]
    IN IF r.ok THEN [entries EXCEPT ![r.pos + 1] = e] ELSE InsertAt(entries, r.pos, e)

\* optimistic leaf mutation that leaves an entry found by the search as it is
optimistic_put_no_overwrite(entries, key, value) ==
    LET r == binary_search(EntryKeys(entries), key)
    IN IF r.ok THEN entries ELSE InsertAt(entries, r.pos, [key |-> key, value |-> value])

\* the leaf mutation of optimistic_insert: on Ok(pos) only the value is replaced
optimistic_put(entries, key, value) ==
    LET r == binary_search(EntryKeys(entries), key)
    IN IF r.ok THEN [entries EXCEPT ![r.pos + 1].value = value]
       ELSE InsertAt(entries, r.pos, [key |-> key, value |-> value])

\* leaf step that decides the split by the entries the leaf held before the put
insert_leaf_split_when_full(ns, id, key, value, path, guards, tt) ==
    LET put == [ns EXCEPT ![id].entries = leaf_put(@, key, value)]
        full == Len(ns[id].entries) = 2 * tt - 1
        r == IF full THEN split(put, id, tt) ELSE [nodes |-> put, sr |-> NoSplit]
        g1 == IF full THEN guards ELSE <<>>
    IN [nodes |-> r.nodes, sr |-> r.sr,
        guards |-> IF path = <<>> THEN Append(g1, id) ELSE g1]

\* BPlus::insert at the leaf: mutate, split when 2t entries, drop the retained
\* guards when not; the leaf's own guard is kept only when the leaf is the root
insert_leaf(ns, id, key, value, path, guards, tt) ==
    LET put == [ns EXCEPT ![id].entries = leaf_put(@, key, value)]
        full == Len(put[id].entries) = 2 * tt
        r == IF full THEN split(put, id, tt) ELSE [nodes |-> put, sr |-> NoSplit]
        g1 == IF full THEN guards ELSE <<>>
    IN [nodes |-> r.nodes, sr |-> r.sr,
        guards |-> IF path = <<>> THEN Append(g1, id) ELSE g1]

\* upward pass that links the new right sibling at the position of the split child
RECURSIVE ascend_wrong_child(_, _, _, _, _)
ascend_wrong_child(ns, path, guards, sr, tt) ==
    IF path = <<>> THEN [nodes |-> ns, guards |-> guards, sr |-> sr, panic |-> FALSE]
    ELSE IF ~sr.some THEN ascend_wrong_child(ns, ButLast(path), guards, sr, tt)
    ELSE IF guards = <<>> THEN [nodes |-> ns, guards |-> guards, sr |-> sr, panic |-> TRUE]
    ELSE LET pos == Last(path)
             id == Last(guards)
             n == ns[id]
             ins == [n EXCEPT !.keys = InsertAt(@, pos, sr.median),
                              !.children = InsertAt(@, pos, sr.link)]
             ns1 == [ns EXCEPT ![id] = ins]
             r == IF n.leaf THEN [nodes |-> ns, sr |-> NoSplit]
                  ELSE IF Len(ins.keys) = 2 * tt - 1 THEN split(ns1, id, tt)
                  ELSE [nodes |-> ns1, sr |-> NoSplit]
             g1 == IF Len(path) = 1 THEN guards ELSE ButLast(guards)
         IN ascend_wrong_child(r.nodes, ButLast(path), g1, r.sr, tt)

\* upward pass that lets an internal node take one key more before it splits
RECURSIVE ascend_split_late(_, _, _, _, _)
ascend_split_late(ns, path, guards, sr, tt) ==
    IF path = <<>> THEN [nodes |-> ns, guards |-> guards, sr |-> sr, panic |-> FALSE]
    ELSE IF ~sr.some THEN ascend_split_late(ns, ButLast(path), guards, sr, tt)
    ELSE IF guards = <<>> THEN [nodes |-> ns, guards |-> guards, sr |-> sr, panic |-> TRUE]
    ELSE LET pos == Last(path)
             id == Last(guards)
             n == ns[id]
             ins == [n EXCEPT !.keys = InsertAt(@, pos, sr.median),
                              !.children = InsertAt(@, pos + 1, sr.link)]
             ns1 == [ns EXCEPT ![id] = ins]
             r == IF n.leaf THEN [nodes |-> ns, sr |-> NoSplit]
                  ELSE IF Len(ins.keys) = 2 * tt THEN split(ns1, id, tt)
                  ELSE [nodes |-> ns1, sr |-> NoSplit]
             g1 == IF Len(path) = 1 THEN guards ELSE ButLast(guards)
         IN ascend_split_late(r.nodes, ButLast(path), g1, r.sr, tt)

\* BPlus::insert, "going up to the root splitting nodes if needed": pops the
\* path; while a split result is carried, it is installed into the node of the
\* innermost retained guard, which splits in turn at 2t - 1 keys
RECURSIVE ascend(_, _, _, _, _)
ascend(ns, path, guards, sr, tt) ==
    IF path = <<>> THEN [nodes |-> ns, guards |-> guards, sr |-> sr, panic |-> FALSE]
    ELSE IF ~sr.some THEN ascend(ns, ButLast(path), guards, sr, tt)
    ELSE IF guards = <<>> THEN [nodes |-> ns, guards |-> guards, sr |-> sr, panic |-> TRUE]
    ELSE LET pos == Last(path)
             id == Last(guards)
             n == ns[id]
             ins == [n EXCEPT !.keys = InsertAt(@, pos, sr.median),
                              !.children = InsertAt(@, pos + 1, sr.link)]
             ns1 == [ns EXCEPT ![id] = ins]
             r == IF n.leaf THEN [nodes |-> ns, sr |-> NoSplit]
                  ELSE IF Len(ins.keys) = 2 * tt - 1 THEN split(ns1, id, tt)
                  ELSE [nodes |-> ns1, sr |-> NoSplit]
             g1 == IF Len(path) = 1 THEN guards ELSE ButLast(guards)
         IN ascend(r.nodes, ButLast(path), g1, r.sr, tt)

\* root growth that appends the split result to the root instead of adding a level
grow_root_flat(ns, guards, sr) ==
    IF ~sr.some \/ guards = <<>> THEN ns
    ELSE LET id == Last(guards)
             n == ns[id]
             new == Len(ns) + 1
         IN IF n.leaf
            THEN Append([ns EXCEPT ![id] = InternalNode(<<new, sr.link>>, <<sr.median>>)],
                        Leaf(n.entries, n.next))
            ELSE [ns EXCEPT ![id] = InternalNode(Append(n.children, sr.link),
                                                 Append(n.keys, sr.median))]

\* root growth that puts the new right sibling before the old root's content
grow_root_swapped(ns, guards, sr) ==
    IF ~sr.some \/ guards = <<>> THEN ns
    ELSE LET id == Last(guards)
             n == ns[id]
             new == Len(ns) + 1
             old_root == IF n.leaf THEN Leaf(n.entries, n.next)
                         ELSE InternalNode(n.children, n.keys)
         IN Append([ns EXCEPT ![id] = InternalNode(<<sr.link, new>>, <<sr.median>>)],
                   old_root)

\* BPlus::insert, "splitting root if needed": the root node is rewritten in
\* place; its former content moves behind a new Link
grow_root(ns, guards, sr) ==
    IF ~sr.some \/ guards = <<>> THEN ns
    ELSE LET id == Last(guards)
             n == ns[id]
             new == Len(ns) + 1
             old_root == IF n.leaf THEN Leaf(n.entries, n.next)
                         ELSE InternalNode(n.children, n.keys)
         IN Append([ns EXCEPT ![id] = InternalNode(<<new, sr.link>>, <<sr.median>>)],
                   old_root)

\* tail of insert that drops a split result left for the root
insert_tail_no_root_growth(ns, id, key, value, path, guards, tt) ==
    LET l == insert_leaf(ns, id, key, value, path, guards, tt)
        a == ascend(l.nodes, path, l.guards, l.sr, tt)
    IN [nodes |-> a.nodes, panic |-> a.panic]

\* everything BPlus::insert does once it holds the write latch of the leaf
insert_tail(ns, id, key, value, path, guards, tt) ==
    LET l == insert_leaf(ns, id, key, value, path, guards, tt)
        a == ascend(l.nodes, path, l.guards, l.sr, tt)
    IN [nodes |-> IF a.panic THEN a.nodes ELSE grow_root(a.nodes, a.guards, a.sr),
        panic |-> a.panic]

(* -------------------------------- latches ------------------------------ *)

InSeq(x, s) == \E i \in 1..Len(s) : s[i] = x

\* a write guard of node id exists
WriteLatched(id) == \E q \in DOMAIN proc : InSeq(id, proc[q].guards)

\* a read guard of node id exists: a task's prev_guard, or one BPlus::serialize holds
ReadLatched(id) == (\E q \in DOMAIN proc : proc[q].prev = id) \/ InSeq(id, saver.held)

\* a write latch granted while read guards of the node exist
CanWrite_over_readers(id) == ~WriteLatched(id)

\* a write latch granted while another write guard of the node exists
CanWrite_over_writers(id) == ~ReadLatched(id)

CanRead(id) == ~WriteLatched(id)

CanWrite(id) == ~WriteLatched(id) /\ ~ReadLatched(id)

(* ------------------------- BPlus.rs, the earlier tree ------------------ *)

\* FileHandler::default() of chunk.rs: the handler with the path "default"
DefaultHandler == "default"

\* Option: what find returns
None == [some |-> FALSE, path |-> ""]
Some(h) == [some |-> TRUE, path |-> h]

\* BPlus::create_new_node
create_new_node(leaf) ==
    [leaf |-> leaf, key_num |-> 0, keys |-> <<>>, children |-> <<>>, pointers |-> <<>>]

\* BPlus::new(t) of BPlus.rs: the root is an empty leaf
new(tt) == [t |-> tt, root |-> create_new_node(TRUE)]

\* "while i < node.key_num { if node.keys[i] > key { break; } i += 1; }": the
\* position (0-based) of the first key greater than key, or key_num
RECURSIVE first_greater(_, _, _)
first_greater(node, key, i) ==
    IF i < node.key_num /\ ~(node.keys[i + 1] > key) THEN first_greater(node, key, i + 1)
    ELSE i

\* "while i < node.key_num { if node.keys[i] == key { break; } i += 1; }"
RECURSIVE first_equal(_, _, _)
first_equal(node, key, i) ==
    IF i < node.key_num /\ node.keys[i + 1] # key THEN first_equal(node, key, i + 1)
    ELSE i

\* "for j in from..=to { v[j + 1] = v[j] }": the range counts upward and is empty
\* when from > to
RECURSIVE move_up(_, _, _)
move_up(v, from, to) ==
    IF from > to THEN v
    ELSE move_up([v EXCEPT ![from + 2] = v[from + 1]], from + 1, to)

\* "for j in from..to { v[j] = v[j + 1] }"
RECURSIVE move_down(_, _, _)
move_down(v, from, to) ==
    IF from >= to THEN v
    ELSE move_down([v EXCEPT ![from + 1] = v[from + 2]], from + 1, to)

\* BPlus::insert_helper at a leaf (l.153-166): a filler is pushed, the loop that
\* makes room runs over key_num - 1..=i, the key and the value are stored at i
insert_helper(node, key, value) ==
    LET i == first_greater(node, key, 0)
        keys == Append(node.keys, 0)
        pointers == Append(node.pointers, DefaultHandler)
        room == node.key_num - 1 >= i
        keys1 == IF room THEN move_up(keys, node.key_num - 1, i) ELSE keys
        pointers1 == IF room THEN move_up(pointers, node.key_num - 1, i) ELSE pointers
    IN [node EXCEPT !.keys = [keys1 EXCEPT ![i + 1] = key],
                    !.pointers = [pointers1 EXCEPT ![i + 1] = value],
                    !.key_num = node.key_num + 1]

\* BPlus::insert of BPlus.rs on a tree whose root is a leaf: insert_helper works
\* on a clone of the root; at 2t keys a new root is made over another clone and
\* split (l.174-180), and then self.root is set to the first clone (l.182), so
\* the new root is dropped and the root stays the leaf with all keys
insert(tree, key, value) == [tree EXCEPT !.root = insert_helper(tree.root, key, value)]

\* BPlus::delete_helper at a leaf (l.201-217)
delete_helper(node, key) ==
    LET i == first_equal(node, key, 0)
        key_num == node.key_num - 1
    IN IF i = node.key_num THEN node
       ELSE [node EXCEPT !.key_num = key_num,
                         !.keys = SubSeq(move_down(node.keys, i, key_num), 1, key_num),
                         !.pointers = SubSeq(move_down(node.pointers, i, key_num), 1,
                                             key_num)]

\* BPlus::delete of BPlus.rs on a tree whose root is a leaf (l.189 asks for a root
\* that is no leaf)
delete(tree, key) == [tree EXCEPT !.root = delete_helper(tree.root, key)]

\* BPlus::find_leaf at a leaf, and BPlus::find: the pointer at the first
\* position that holds the key
find(tree, key) ==
    LET node == tree.root
        i == first_equal(node, key, 0)
    IN IF ~\E j \in 1..node.key_num : node.keys[j] = key THEN None
       ELSE IF i = node.key_num THEN None
       ELSE Some(node.pointers[i + 1])

\* the keys the calls on the earlier tree are made with
KeysRs == 1..MaxKey

\* the handlers of test_insert_and_delete_many_nodes
HandlersRs == {"file1.txt", "file2.txt"}

\* no call made: present[k] is the handler k was inserted with when k was
\* inserted and not deleted afterwards
NoCalls == [present |-> [k \in 0..MaxKey |-> None], inserted |-> {}, deleted |-> {},
            op |-> "none", key |-> 0, res |-> None]

(* --------------------------------- tasks ------------------------------- *)

Idle == [pc |-> "idle", op |-> "none", key |-> 0, bytes |-> <<>>,
         value |-> ChunkHandler(0, 0, 0), cur |-> NoLink, prev |-> NoLink,
         guards |-> <<>>, path |-> <<>>, res |-> NoResult, sawDone |-> FALSE]

InFlight(q) == proc[q].pc \notin {"idle", "panicked"}

\* a return that leaves the guards of the task in place
Return_keeps_guards(pr, res) ==
    [pr EXCEPT !.pc = "idle", !.cur = NoLink, !.path = <<>>, !.res = res]

\* an operation returns: every guard is dropped
Return(pr, res) ==
    [pr EXCEPT !.pc = "idle", !.cur = NoLink, !.prev = NoLink, !.guards = <<>>,
               !.path = <<>>, !.res = res]

Range(s) == {s[i] : i \in 1..Len(s)}

\* the trees the tasks start from: task 1 first issues the inserts of script, one
\* after another, on the empty tree of BPlus::new; keys are then drawn from keyset
Configs ==
    { [t |-> 2, script |-> <<>>, keys |-> 1..MaxKey],
      [t |-> 2, script |-> <<10, 20, 30>>, keys |-> {5, 20, 35}],
      [t |-> 3, script |-> <<10, 20, 30, 40, 50>>, keys |-> {5, 30, 55}],
      [t |-> 2, script |-> <<10, 20, 30, 40, 50, 60, 25>>, keys |-> {15, 25, 35}],
      [t |-> 2, script |-> <<10, 20, 30, 40, 50, 60, 70, 80, 90, 100, 110>>,
       keys |-> {15, 95, 110}],
      [t |-> 2, script |-> <<10, 20, 30, 40, 50, 60, 70, 80, 90, 100, 110, 120,
                             130, 140, 150>>,
       keys |-> {15, 145, 150}] }

\* the fields BPlus::new gives a tree besides t, root, file_number and offset
NewBPlus == [path |-> "data", max_file_size |-> max_file_size, current_file |-> "create"]

\* no file at the save path
NoSnapshot == [t |-> 0]

\* the task of BPlus::save before the call: it holds no latch
IdleSaver == [pc |-> "idle", head |-> NoSnapshot, held |-> <<>>, idx |-> <<>>,
              seen |-> <<>>, quiet |-> FALSE, ops |-> 0]

\* the thread calling BPlusStorage between two calls
IdleCaller == [pc |-> "idle", op |-> "none", key |-> 0, res |-> NoResult]

\* the state BPlus::new leaves, with the inserts and keys of c still to come
StartWith(c, ops, tasks) ==
    /\ t = c.t
    /\ script = c.script
    /\ keyset = c.keys
    /\ called = [k \in c.keys \cup Range(c.script) |-> NotFound]
    /\ lin = [k \in c.keys \cup Range(c.script) |-> NotFound]
    /\ nodes = <<Leaf(<<>>, NoLink)>>
    /\ files = << <<>> >>
    /\ file_number = 0
    /\ offset = 0
    /\ proc = [p \in tasks |-> Idle]
    /\ opsLeft = ops
    /\ completed = {}
    /\ racy = {}
    /\ overlapped = FALSE
    /\ bplus = NewBPlus
    /\ handles = <<>>
    /\ snapshot = NoSnapshot
    /\ saver = IdleSaver
    /\ loader = "none"
    /\ keys_set = {}
    /\ spawned = {}
    /\ caller = IdleCaller
    /\ bplus_rs = new(2)
    /\ calls_rs = NoCalls

Start(c, ops) == StartWith(c, ops, Procs)

Init == \E c \in Configs : Start(c, MaxOps)

\* the value of a scripted insert: one byte, and no byte for the keys below 10
ScriptBytes(k) == IF k < 10 THEN <<>> ELSE <<1>>

\* BPlus::insert up to its first latch: the chunk is written and the handle made
Insert(p, k, b) ==
    /\ proc[p].pc = "idle"
    /\ k \in keyset \cup Range(script)
    /\ \A q \in Procs : script # <<>> => proc[q].pc = "idle"
    /\ IF script # <<>>
       THEN p = 1 /\ k = Head(script) /\ b = ScriptBytes(k) /\ script' = Tail(script)
                  /\ opsLeft' = opsLeft
       ELSE k \in keyset /\ opsLeft > 0 /\ opsLeft' = opsLeft - 1 /\ script' = script
    /\ LET w == get_chunk_handler(files, file_number, offset, b) IN
        /\ w.ok
        /\ bplus' = [bplus EXCEPT !.current_file = w.current_file]
        /\ files' = w.files
        /\ file_number' = w.file_number
        /\ offset' = w.offset
        /\ proc' = [proc EXCEPT ![p] = [Idle EXCEPT !.pc = "o_desc", !.op = "insert",
                       !.key = k, !.bytes = b, !.value = w.handle, !.cur = Root]]
    /\ called' = [called EXCEPT ![k] = Ok(b)]
    /\ racy' = IF \E q \in Procs : InFlight(q) /\ proc[q].op = "insert" /\ proc[q].key = k
               THEN racy \cup {k} ELSE racy
    /\ overlapped' = (overlapped \/ \E q \in Procs : InFlight(q))
    /\ UNCHANGED <<aux, t, keyset, nodes, lin, completed>>

\* optimistic_insert, one turn of the loop: read-latch cur, give up the
\* grandparent's guard; a leaf root fails the attempt, any other leaf ends the loop
OptimisticDescend(p) ==
    LET pr == proc[p]
        n == nodes[pr.cur]
    IN /\ pr.pc = "o_desc"
       /\ CanRead(pr.cur)
       /\ proc' = [proc EXCEPT ![p] =
             IF n.leaf
             THEN IF pr.prev = NoLink
                  THEN [pr EXCEPT !.pc = "p_desc", !.cur = Root]
                  ELSE [pr EXCEPT !.pc = "o_leaf"]
             ELSE [pr EXCEPT !.prev = pr.cur,
                             !.cur = n.children[route(n.keys, pr.key) + 1]]]
       /\ UNCHANGED <<aux, bplus, t, keyset, nodes, files, file_number, offset, script, opsLeft,
                      called, lin, completed, racy, overlapped>>

\* optimistic leaf step that mutates the leaf whatever the number of its entries
OptimisticLeaf_no_abort(p) ==
    LET pr == proc[p]
        n == nodes[pr.cur]
    IN /\ pr.pc = "o_leaf"
       /\ CanWrite(pr.cur)
       /\ IF ~n.leaf
          THEN /\ proc' = [proc EXCEPT ![p] = [Return(pr, NoResult) EXCEPT !.pc = "panicked"]]
               /\ UNCHANGED <<nodes, lin, completed, bplus_rs, calls_rs>>
          ELSE /\ nodes' = [nodes EXCEPT ![pr.cur].entries =
                                            optimistic_put(@, pr.key, pr.value)]
               /\ lin' = [lin EXCEPT ![pr.key] = Ok(pr.bytes)]
               /\ completed' = completed \cup {pr.key}
               /\ proc' = [proc EXCEPT ![p] = Return(pr, NoResult)]
       /\ UNCHANGED <<aux, bplus, t, keyset, files, file_number, offset, script, opsLeft, called,
                      racy, overlapped>>

\* optimistic_insert at the leaf: write-latch it under the parent's read guard,
\* drop that guard, give up when the leaf holds 2t - 1 entries, else mutate
OptimisticLeaf(p) ==
    LET pr == proc[p]
        n == nodes[pr.cur]
    IN /\ pr.pc = "o_leaf"
       /\ CanWrite(pr.cur)
       /\ IF ~n.leaf
          THEN /\ proc' = [proc EXCEPT ![p] = [Return(pr, NoResult) EXCEPT !.pc = "panicked"]]
               /\ UNCHANGED <<nodes, lin, completed, bplus_rs, calls_rs>>
          ELSE IF Len(n.entries) = 2 * t - 1
          THEN /\ proc' = [proc EXCEPT ![p] =
                              [pr EXCEPT !.pc = "p_desc", !.cur = Root, !.prev = NoLink]]
               /\ UNCHANGED <<nodes, lin, completed, bplus_rs, calls_rs>>
          ELSE /\ nodes' = [nodes EXCEPT ![pr.cur].entries =
                                            optimistic_put(@, pr.key, pr.value)]
               /\ lin' = [lin EXCEPT ![pr.key] = Ok(pr.bytes)]
               /\ completed' = completed \cup {pr.key}
               /\ proc' = [proc EXCEPT ![p] = Return(pr, NoResult)]
       /\ UNCHANGED <<aux, bplus, t, keyset, files, file_number, offset, script, opsLeft, called,
                      racy, overlapped>>

\* descent that retains the guards of all ancestors at every internal node
InsertInternal_retain_all(p) ==
    LET pr == proc[p]
        n == nodes[pr.cur]
        pos == route(n.keys, pr.key)
    IN /\ pr.pc = "p_desc"
       /\ CanWrite(pr.cur)
       /\ ~n.leaf
       /\ proc' = [proc EXCEPT ![p] =
             [pr EXCEPT !.guards = Append(pr.guards, pr.cur), !.path = Append(@, pos),
                        !.cur = n.children[pos + 1]]]
       /\ UNCHANGED <<aux, bplus, t, keyset, nodes, files, file_number, offset, script, opsLeft,
                      called, lin, completed, racy, overlapped>>

\* descent that releases the guards of all ancestors at every internal node
InsertInternal_release_all(p) ==
    LET pr == proc[p]
        n == nodes[pr.cur]
        pos == route(n.keys, pr.key)
    IN /\ pr.pc = "p_desc"
       /\ CanWrite(pr.cur)
       /\ ~n.leaf
       /\ proc' = [proc EXCEPT ![p] =
             [pr EXCEPT !.guards = <<pr.cur>>, !.path = Append(@, pos),
                        !.cur = n.children[pos + 1]]]
       /\ UNCHANGED <<aux, bplus, t, keyset, nodes, files, file_number, offset, script, opsLeft,
                      called, lin, completed, racy, overlapped>>

\* BPlus::insert, descent at an internal node: write-latch it, release the
\* retained ancestors when it does not hold 2t - 2 keys, retain its own guard
InsertInternal(p) ==
    LET pr == proc[p]
        n == nodes[pr.cur]
        pos == route(n.keys, pr.key)
        kept == IF Len(n.keys) # 2 * t - 2 THEN <<>> ELSE pr.guards
    IN /\ pr.pc = "p_desc"
       /\ CanWrite(pr.cur)
       /\ ~n.leaf
       /\ proc' = [proc EXCEPT ![p] =
             [pr EXCEPT !.guards = Append(kept, pr.cur), !.path = Append(@, pos),
                        !.cur = n.children[pos + 1]]]
       /\ UNCHANGED <<aux, bplus, t, keyset, nodes, files, file_number, offset, script, opsLeft,
                      called, lin, completed, racy, overlapped>>

\* BPlus::insert at the leaf: write-latch it, mutate, split and propagate
\* upward under the retained guards, grow the root, drop every guard, return
InsertLeaf(p) ==
    LET pr == proc[p]
        n == nodes[pr.cur]
        r == insert_tail(nodes, pr.cur, pr.key, pr.value, pr.path, pr.guards, t)
    IN /\ pr.pc = "p_desc"
       /\ CanWrite(pr.cur)
       /\ n.leaf
       /\ nodes' = r.nodes
       /\ lin' = [lin EXCEPT ![pr.key] = Ok(pr.bytes)]
       /\ IF r.panic
          THEN /\ proc' = [proc EXCEPT ![p] = [Return(pr, NoResult) EXCEPT !.pc = "panicked"]]
               /\ UNCHANGED completed
          ELSE /\ proc' = [proc EXCEPT ![p] = Return(pr, NoResult)]
               /\ completed' = completed \cup {pr.key}
       /\ UNCHANGED <<aux, bplus, t, keyset, files, file_number, offset, script, opsLeft, called,
                      racy, overlapped>>

\* BPlus::get up to its first latch
Get(p, k) ==
    /\ proc[p].pc = "idle"
    /\ k \in keyset
    /\ script = <<>>
    /\ opsLeft > 0
    /\ opsLeft' = opsLeft - 1
    /\ proc' = [proc EXCEPT ![p] = [Idle EXCEPT !.pc = "g_desc", !.op = "get",
                   !.key = k, !.cur = Root, !.sawDone = k \in completed]]
    /\ overlapped' = (overlapped \/ \E q \in Procs : InFlight(q))
    /\ UNCHANGED <<aux, bplus, t, keyset, nodes, files, file_number, offset, script, called, lin,
                   completed, racy>>

\* leaf lookup that answers with the entry at the insertion point of a missing key
get_leaf_nearest(fs, entries, key) ==
    LET r == binary_search(EntryKeys(entries), key)
    IN IF r.pos < Len(entries) THEN read(fs, entries[r.pos + 1].value) ELSE NotFound

\* the result of get at a leaf: the chunk of the matching entry, or NotFound
get_leaf(fs, entries, key) ==
    LET r == binary_search(EntryKeys(entries), key)
    IN IF r.ok THEN read(fs, entries[r.pos + 1].value) ELSE NotFound

\* turn of get that gives up the parent's guard before it asks for the child's
GetDescend_release_first(p) ==
    LET pr == proc[p]
        n == nodes[pr.cur]
        pos == route(n.keys, pr.key)
    IN /\ pr.pc = "g_desc"
       /\ CanRead(pr.cur)
       /\ proc' = [proc EXCEPT ![p] =
             IF n.leaf THEN Return(pr, get_leaf(files, n.entries, pr.key))
             ELSE IF pos + 1 > Len(n.children) THEN Return(pr, NotFound)
             ELSE [pr EXCEPT !.prev = NoLink, !.cur = n.children[pos + 1]]]
       /\ UNCHANGED <<aux, bplus, t, keyset, nodes, files, file_number, offset, script, opsLeft,
                      called, lin, completed, racy, overlapped>>

\* BPlus::get, one turn of the loop: read-latch cur, drop the parent's guard,
\* answer at a leaf, route at an internal node
GetDescend(p) ==
    LET pr == proc[p]
        n == nodes[pr.cur]
        pos == route(n.keys, pr.key)
    IN /\ pr.pc = "g_desc"
       /\ CanRead(pr.cur)
       /\ proc' = [proc EXCEPT ![p] =
             IF n.leaf THEN Return(pr, get_leaf(files, n.entries, pr.key))
             ELSE IF pos + 1 > Len(n.children) THEN Return(pr, NotFound)
             ELSE [pr EXCEPT !.prev = pr.cur, !.cur = n.children[pos + 1]]]
       /\ UNCHANGED <<aux, bplus, t, keyset, nodes, files, file_number, offset, script, opsLeft,
                      called, lin, completed, racy, overlapped>>

Next ==
    \/ \E p \in Procs, k \in DOMAIN called, b \in Values : Insert(p, k, b)
    \/ \E p \in Procs, k \in DOMAIN called : Get(p, k)
    \/ \E p \in Procs : OptimisticDescend(p)
    \/ \E p \in Procs : OptimisticLeaf(p)
    \/ \E p \in Procs : InsertInternal(p)
    \/ \E p \in Procs : InsertLeaf(p)
    \/ \E p \in Procs : GetDescend(p)

Spec == Init /\ [][Next]_vars

\* one task alone: every operation runs to its end before the next is called
SeqNext ==
    \/ \E k \in DOMAIN called, b \in Values : Insert(1, k, b)
    \/ \E k \in DOMAIN called : Get(1, k)
    \/ OptimisticDescend(1)
    \/ OptimisticLeaf(1)
    \/ InsertInternal(1)
    \/ InsertLeaf(1)
    \/ GetDescend(1)

SeqSpec == Init /\ [][SeqNext]_vars

(* --------------------------- the chunk store alone --------------------- *)

MaxWrites == 5

\* chunk sizes below, at and above max_file_size, and the empty chunk
StoreValues == {<<>>, <<1>>, <<2, 2>>, <<3, 3, 3>>}

StoreInit == Start([t |-> 2, script |-> <<>>, keys |-> {}], MaxWrites)

\* one call of BPlus::get_chunk_handler: it runs from the grant of the write
\* lock of current_file to its return without an await, so calls do not interleave
ChunkWrite(b) ==
    /\ opsLeft > 0
    /\ opsLeft' = opsLeft - 1
    /\ LET w == get_chunk_handler(files, file_number, offset, b) IN
        /\ w.ok
        /\ bplus' = [bplus EXCEPT !.current_file = w.current_file]
        /\ files' = w.files
        /\ file_number' = w.file_number
        /\ offset' = w.offset
        /\ handles' = Append(handles, [handle |-> w.handle, bytes |-> b])
    /\ UNCHANGED <<t, nodes, proc, script, keyset, called, lin, completed, racy,
                   overlapped, snapshot, saver, loader, keys_set, spawned, caller,
                   bplus_rs, calls_rs>>

StoreNext == \E b \in StoreValues : ChunkWrite(b)

StoreSpec == StoreInit /\ [][StoreNext]_vars

(* ------------------------- reading the tree --------------------------- *)

Quiescent == \A p \in Procs : proc[p].pc = "idle"

\* BPlus::get run alone on the tree as it stands
RECURSIVE get_from(_, _)
get_from(id, key) ==
    LET n == nodes[id]
        pos == route(n.keys, key)
    IN IF n.leaf THEN get_leaf(files, n.entries, key)
       ELSE IF pos + 1 > Len(n.children) THEN NotFound
       ELSE get_from(n.children[pos + 1], key)

RECURSIVE Subtree(_)
Subtree(id) ==
    IF nodes[id].leaf THEN {id}
    ELSE {id} \cup UNION {Subtree(nodes[id].children[i]) : i \in 1..Len(nodes[id].children)}

\* the keys stored in the leaves below id
SubtreeKeys(id) ==
    UNION {Range(EntryKeys(nodes[l].entries)) : l \in {x \in Subtree(id) : nodes[x].leaf}}

RECURSIVE LeafDepths(_, _)
LeafDepths(id, d) ==
    IF nodes[id].leaf THEN {d}
    ELSE UNION {LeafDepths(nodes[id].children[i], d + 1) : i \in 1..Len(nodes[id].children)}

RECURSIVE Leftmost(_)
Leftmost(id) == IF nodes[id].leaf THEN id ELSE Leftmost(nodes[id].children[1])

\* the leaves met from leaf id along the next links, at most fuel + 1 of them
RECURSIVE Chain(_, _)
Chain(id, fuel) ==
    IF nodes[id].next = NoLink \/ fuel = 0 THEN <<id>>
    ELSE <<id>> \o Chain(nodes[id].next, fuel - 1)

RECURSIVE Flatten(_)
Flatten(ss) == IF ss = <<>> THEN <<>> ELSE Head(ss) \o Flatten(Tail(ss))

StrictlyAscending(s) == \A i \in 1..(Len(s) - 1) : s[i] < s[i + 1]

Stored == {k \in DOMAIN lin : lin[k].kind = "Ok"}

GetReturns(p) == proc[p].pc = "g_desc" /\ proc'[p].pc = "idle"

(* ------------------------------ save and load ------------------------- *)

SerializableLeaf(entries) ==
    [leaf |-> TRUE, keys |-> <<>>, children |-> <<>>, entries |-> entries]

SerializableInternalNode(keys, children) ==
    [leaf |-> FALSE, keys |-> keys, children |-> children, entries |-> <<>>]

SerializableBPlus(head, root) ==
    [t |-> head.t, path |-> head.path, file_number |-> head.file_number,
     offset |-> head.offset, max_file_size |-> head.max_file_size, root |-> root]

\* serialization that leaves out the first entry of every leaf
RECURSIVE serialize_lossy(_, _)
serialize_lossy(seen, id) ==
    IF seen[id].leaf
    THEN SerializableLeaf(IF seen[id].entries = <<>> THEN <<>> ELSE Tail(seen[id].entries))
    ELSE SerializableInternalNode(seen[id].keys,
             [i \in 1..Len(seen[id].children) |->
                 serialize_lossy(seen, seen[id].children[i])])

\* Node::serialize: seen[id] is node id as the save task read it under its read
\* guard; a leaf gives its entries (not its next link), an internal node its keys
\* and its serialized children
RECURSIVE serialize(_, _)
serialize(seen, id) ==
    IF seen[id].leaf THEN SerializableLeaf(seen[id].entries)
    ELSE SerializableInternalNode(seen[id].keys,
             [i \in 1..Len(seen[id].children) |-> serialize(seen, seen[id].children[i])])

\* the read guards BPlus::serialize still holds once a node is done: those of the
\* ancestors with a child left to serialize
RECURSIVE unwind(_, _, _)
unwind(held, idx, seen) ==
    IF held = <<>> THEN [held |-> <<>>, idx |-> <<>>]
    ELSE IF Last(idx) > Len(seen[Last(held)].children)
    THEN unwind(ButLast(held), ButLast(idx), seen)
    ELSE [held |-> held, idx |-> idx]

\* BPlus::save up to the first latch of a node: the tree latch is taken (no other
\* operation awaits it, so it is granted), serialize copies the fields of the tree
SaveBegin ==
    /\ saver.pc = "idle"
    /\ snapshot = NoSnapshot
    /\ loader = "none"
    /\ script = <<>>
    /\ saver' = [pc |-> "nodes",
                 head |-> [t |-> t, path |-> bplus.path, file_number |-> file_number,
                           offset |-> offset, max_file_size |-> bplus.max_file_size],
                 held |-> <<>>, idx |-> <<>>, seen |-> <<>>,
                 quiet |-> \A p \in DOMAIN proc : ~InFlight(p), ops |-> opsLeft]
    /\ UNCHANGED <<t, nodes, files, file_number, offset, bplus, proc, script, keyset,
                   opsLeft, called, lin, completed, racy, overlapped, handles,
                   snapshot, loader, keys_set, spawned, caller, bplus_rs, calls_rs>>

\* Node::serialize, one node: read-latch it (the root first, then the next child
\* of the innermost node held), copy it; a leaf's guard is dropped at once, an
\* internal node's is held while its children are serialized.  After the last
\* node save writes the file and returns
SaveNode ==
    LET target == IF saver.held = <<>> THEN Root
                  ELSE saver.seen[Last(saver.held)].children[Last(saver.idx)]
        n == nodes[target]
        seen1 == (target :> n) @@ saver.seen
        idx1 == IF saver.held = <<>> THEN <<>>
                ELSE [saver.idx EXCEPT ![Len(saver.idx)] = @ + 1]
        rest == IF n.leaf THEN unwind(saver.held, idx1, seen1)
                ELSE [held |-> Append(saver.held, target), idx |-> Append(idx1, 1)]
    IN /\ saver.pc = "nodes"
       /\ CanRead(target)
       /\ IF rest.held = <<>>
          THEN /\ snapshot' = SerializableBPlus(saver.head, serialize(seen1, Root))
               /\ saver' = [saver EXCEPT !.pc = "idle", !.held = <<>>, !.idx = <<>>,
                                         !.seen = <<>>]
          ELSE /\ saver' = [saver EXCEPT !.held = rest.held, !.idx = rest.idx,
                                         !.seen = seen1]
               /\ UNCHANGED snapshot
       /\ UNCHANGED <<t, nodes, files, file_number, offset, bplus, proc, script, keyset,
                      opsLeft, called, lin, completed, racy, overlapped, handles,
                      loader, keys_set, spawned, caller, bplus_rs, calls_rs>>

\* Node::from(SerializableNode): the nodes of the subtree behind new Links, the
\* subtree's root behind Link Len(ns) + 1; every leaf gets next = None
RECURSIVE from_node(_, _)
RECURSIVE from_children(_, _, _)
from_children(children, ns, links) ==
    IF children = <<>> THEN [nodes |-> ns, links |-> links]
    ELSE from_children(Tail(children), from_node(Head(children), ns),
                       Append(links, Len(ns) + 1))

from_node(sn, ns) ==
    IF sn.leaf THEN Append(ns, Leaf(sn.entries, NoLink))
    ELSE LET id == Len(ns) + 1
             r == from_children(sn.children, Append(ns, Leaf(<<>>, NoLink)), <<>>)
         IN [r.nodes EXCEPT ![id] = InternalNode(r.links, sn.keys)]

\* BPlus::collect_leaves: the leaves in breadth-first order
RECURSIVE collect_leaves(_, _, _)
collect_leaves(ns, queue, leaves) ==
    IF queue = <<>> THEN leaves
    ELSE IF ns[Head(queue)].leaf
    THEN collect_leaves(ns, Tail(queue), Append(leaves, Head(queue)))
    ELSE collect_leaves(ns, Tail(queue) \o ns[Head(queue)].children, leaves)

\* sort_by on (first key, leaf) pairs: a stable sort by key
RECURSIVE sort_by(_)
sort_by(pairs) ==
    IF pairs = <<>> THEN <<>>
    ELSE LET sorted == sort_by(ButLast(pairs))
             x == Last(pairs)
             pos == Cardinality({i \in 1..Len(sorted) : sorted[i].key <= x.key})
         IN InsertAt(sorted, pos, x)

\* BPlus::rebuild_links: nothing when the cursor is at segment 0, offset 0; else
\* the leaves, sorted by their first key (entries[0] of an empty leaf panics),
\* are linked each to the following one
rebuild_links(ns, fnum, off) ==
    LET leaves == collect_leaves(ns, <<Root>>, <<>>)
    IN IF off = 0 /\ fnum = 0 THEN [nodes |-> ns, panic |-> FALSE]
       ELSE IF \E i \in 1..Len(leaves) : ns[leaves[i]].entries = <<>>
       THEN [nodes |-> ns, panic |-> TRUE]
       ELSE LET sorted_leaves ==
                    sort_by([i \in 1..Len(leaves) |->
                                [key |-> ns[leaves[i]].entries[1].key, link |-> leaves[i]]])
            IN [nodes |-> [id \in 1..Len(ns) |->
                              IF \E i \in 1..(Len(sorted_leaves) - 1) :
                                     sorted_leaves[i].link = id
                              THEN [ns[id] EXCEPT !.next =
                                       sorted_leaves[(CHOOSE i \in 1..(Len(sorted_leaves) - 1) :
                                                         sorted_leaves[i].link = id) + 1].link]
                              ELSE ns[id]],
                panic |-> FALSE]

\* BPlus::open_current_file: File::open of segment number, a read-only handle;
\* the unwrap panics when the segment is not in the directory
open_current_file(fs, number) == IF number + 1 \in 1..Len(fs) THEN "open" ELSE "missing"

\* BPlus::load of the file save wrote, the original tree being out of use:
\* deserialize builds the nodes, reopens the current segment and rebuilds the
\* links; a panic on the way leaves no tree
Load ==
    /\ snapshot # NoSnapshot
    /\ loader = "none"
    /\ saver.pc = "idle"
    /\ Quiescent
    /\ LET current_file == open_current_file(files, snapshot.file_number)
           r == rebuild_links(from_node(snapshot.root, <<>>), snapshot.file_number,
                              snapshot.offset)
       IN IF current_file = "missing" \/ r.panic
          THEN /\ loader' = "panicked"
               /\ UNCHANGED <<t, nodes, file_number, offset, bplus, bplus_rs, calls_rs>>
          ELSE /\ loader' = "done"
               /\ t' = snapshot.t
               /\ nodes' = r.nodes
               /\ file_number' = snapshot.file_number
               /\ offset' = snapshot.offset
               /\ bplus' = [path |-> snapshot.path,
                            max_file_size |-> snapshot.max_file_size,
                            current_file |-> current_file]
    /\ UNCHANGED <<files, proc, script, keyset, opsLeft, called, lin, completed, racy,
                   overlapped, handles, snapshot, saver, keys_set, spawned, caller,
                   bplus_rs, calls_rs>>

\* failing insert that has put its key into the leftmost leaf before the write
InsertPanic_after_put(p, k, b) ==
    /\ proc[p].pc = "idle"
    /\ k \in keyset
    /\ script = <<>>
    /\ opsLeft > 0
    /\ opsLeft' = opsLeft - 1
    /\ LET w == get_chunk_handler(files, file_number, offset, b) IN
        /\ ~w.ok
        /\ bplus' = [bplus EXCEPT !.current_file = w.current_file]
        /\ files' = w.files
        /\ file_number' = w.file_number
        /\ offset' = w.offset
        /\ nodes' = [nodes EXCEPT ![Leftmost(Root)].entries = leaf_put(@, k, w.handle)]
    /\ proc' = [proc EXCEPT ![p] = [Idle EXCEPT !.pc = "panicked", !.op = "insert",
                                                !.key = k, !.bytes = b]]
    /\ called' = [called EXCEPT ![k] = Ok(b)]
    /\ UNCHANGED <<aux, t, keyset, script, lin, completed, racy, overlapped>>

\* BPlus::insert whose chunk write fails: get_chunk_handler returns the error of
\* write_at and the unwrap panics
InsertPanic(p, k, b) ==
    /\ proc[p].pc = "idle"
    /\ k \in keyset
    /\ script = <<>>
    /\ opsLeft > 0
    /\ opsLeft' = opsLeft - 1
    /\ LET w == get_chunk_handler(files, file_number, offset, b) IN
        /\ ~w.ok
        /\ bplus' = [bplus EXCEPT !.current_file = w.current_file]
        /\ files' = w.files
        /\ file_number' = w.file_number
        /\ offset' = w.offset
    /\ proc' = [proc EXCEPT ![p] = [Idle EXCEPT !.pc = "panicked", !.op = "insert",
                                                !.key = k, !.bytes = b]]
    /\ called' = [called EXCEPT ![k] = Ok(b)]
    /\ UNCHANGED <<aux, t, keyset, nodes, script, lin, completed, racy, overlapped>>

\* the values of the trees that are saved: the empty chunk and a one-byte chunk
PersistValues == {<<>>, <<1>>}

PersistConfigs ==
    { [t |-> 2, script |-> <<>>, keys |-> {1, 2}, ops |-> 2],
      [t |-> 2, script |-> <<1, 2, 3, 4>>, keys |-> {3, 5}, ops |-> 2],
      [t |-> 2, script |-> <<10, 20, 30, 40>>, keys |-> {15, 45}, ops |-> 3],
      [t |-> 2, script |-> <<10, 20, 30, 40, 50, 60, 70, 80, 90, 100, 110>>,
       keys |-> {15, 115}, ops |-> 2] }

PersistInit == \E c \in PersistConfigs : Start(c, c.ops)

\* one task inserting and reading, a task saving the tree meanwhile, then load
PersistNext ==
    \/ \E k \in DOMAIN called, b \in PersistValues : Insert(1, k, b)
    \/ \E k \in DOMAIN called, b \in PersistValues : InsertPanic(1, k, b)
    \/ \E k \in DOMAIN called : Get(1, k)
    \/ OptimisticDescend(1)
    \/ OptimisticLeaf(1)
    \/ InsertInternal(1)
    \/ InsertLeaf(1)
    \/ GetDescend(1)
    \/ SaveBegin
    \/ SaveNode
    \/ Load

PersistSpec == PersistInit /\ [][PersistNext]_vars

(* ---------------------- tasks and save, fairly scheduled --------------- *)

\* a root leaf; a root over a leaf with room and a full leaf; a tree of depth 3
LiveConfigs ==
    { [t |-> 2, script |-> <<>>, keys |-> {1, 2}, ops |-> 2],
      [t |-> 2, script |-> <<10, 20, 30, 40, 50>>, keys |-> {15, 45}, ops |-> 2],
      [t |-> 2, script |-> <<10, 20, 30, 40, 50, 60, 70, 80, 90, 100, 110>>,
       keys |-> {15, 115}, ops |-> 2] }

LiveValues == {<<1>>}

LiveInit == \E c \in LiveConfigs : Start(c, c.ops)

\* the tasks inserting and reading, a task saving the tree meanwhile
LiveNext ==
    \/ \E p \in Procs, k \in DOMAIN called, b \in LiveValues : Insert(p, k, b)
    \/ \E p \in Procs, k \in DOMAIN called : Get(p, k)
    \/ \E p \in Procs : OptimisticDescend(p)
    \/ \E p \in Procs : OptimisticLeaf(p)
    \/ \E p \in Procs : InsertInternal(p)
    \/ \E p \in Procs : InsertLeaf(p)
    \/ \E p \in Procs : GetDescend(p)
    \/ SaveBegin
    \/ SaveNode

\* a step of an operation that has been called, the leaf step of the pessimistic
\* insert apart
LiveStep ==
    \/ \E p \in Procs : OptimisticDescend(p)
    \/ \E p \in Procs : OptimisticLeaf(p)
    \/ \E p \in Procs : InsertInternal(p)
    \/ \E p \in Procs : GetDescend(p)
    \/ SaveNode

\* the leaf step of some pessimistic insert can be taken: the guard of InsertLeaf
LeafGranted ==
    \E p \in Procs :
        proc[p].pc = "p_desc" /\ CanWrite(proc[p].cur) /\ nodes[proc[p].cur].leaf

\* the runtime keeps polling the tasks and a free latch is granted to a task
\* waiting for it: while some operation can take a step, a step is taken.  The
\* last conjunct is WF_vars(\E p \in Procs : InsertLeaf(p)) written out, with the
\* guard of InsertLeaf in the place of ENABLED.  When a call is made is up to the
\* callers: no fairness for Insert, Get and SaveBegin
LiveSpec ==
    /\ LiveInit
    /\ [][LiveNext]_vars
    /\ WF_vars(LiveStep)
    /\ ([]<>(~LeafGranted) \/ []<><<\E p \in Procs : InsertLeaf(p)>>_vars)

(* ------------------------- the root grows beside others --------------- *)

\* trees whose root is about to overflow: the root leaf 1, 2, 3; an internal root
\* of 2t - 2 keys over a full leaf; the root leaf of 2t - 1 entries with t = 3
GrowConfigs ==
    { [t |-> 2, script |-> <<1, 2, 3>>, keys |-> {2, 4}, ops |-> 2],
      [t |-> 2, script |-> <<10, 20, 30, 40, 50, 60, 70>>, keys |-> {15, 80}, ops |-> 2],
      [t |-> 3, script |-> <<10, 20, 30, 40, 50>>, keys |-> {5, 55}, ops |-> 2] }

GrowInit == \E c \in GrowConfigs : Start(c, c.ops)

\* the tasks inserting and reading and the task saving, on these trees
GrowNext ==
    \/ \E p \in Procs, k \in DOMAIN called, b \in PersistValues : Insert(p, k, b)
    \/ \E p \in Procs, k \in DOMAIN called : Get(p, k)
    \/ \E p \in Procs : OptimisticDescend(p)
    \/ \E p \in Procs : OptimisticLeaf(p)
    \/ \E p \in Procs : InsertInternal(p)
    \/ \E p \in Procs : InsertLeaf(p)
    \/ \E p \in Procs : GetDescend(p)
    \/ SaveBegin
    \/ SaveNode

GrowSpec == GrowInit /\ [][GrowNext]_vars

(* ----------------------------- cancelled inserts ----------------------- *)

\* cancellation that forgets the guards instead of dropping them
Cancel_keeps_guards(p) ==
    /\ proc[p].op = "insert"
    /\ proc[p].pc \in {"o_desc", "o_leaf", "p_desc"}
    /\ script = <<>>
    /\ proc' = [proc EXCEPT ![p] =
                    [Return_keeps_guards(proc[p], NoResult) EXCEPT !.op = "cancelled"]]
    /\ UNCHANGED <<aux, bplus, t, keyset, nodes, files, file_number, offset, script, opsLeft,
                   called, lin, completed, racy, overlapped>>

\* the future of BPlus::insert is dropped while it waits for a latch (the awaits
\* of read_owned and write_owned are its suspension points once the chunk is
\* written): its locals are dropped, among them prev_guard, current_node and the
\* guards of the VecDeque.  The inserts that build the tree, but for the last of
\* them, run to their end
Cancel(p) ==
    /\ proc[p].op = "insert"
    /\ proc[p].pc \in {"o_desc", "o_leaf", "p_desc"}
    /\ script = <<>>
    /\ proc' = [proc EXCEPT ![p] = [Return(proc[p], NoResult) EXCEPT !.op = "cancelled"]]
    /\ UNCHANGED <<aux, bplus, t, keyset, nodes, files, file_number, offset, script, opsLeft,
                   called, lin, completed, racy, overlapped>>

\* a root leaf with room for one entry; a tree of depth 3 whose rightmost leaf and
\* the node above it are full
CancelConfigs ==
    { [t |-> 2, script |-> <<10, 20>>, keys |-> {5, 25}, ops |-> 3],
      [t |-> 2, script |-> <<10, 20, 30, 40, 50, 60, 70, 80, 90, 100, 110>>,
       keys |-> {95, 115}, ops |-> 3] }

CancelInit == \E c \in CancelConfigs : Start(c, c.ops)

\* the tasks inserting and reading, an insert being cancelled at any of its awaits
CancelNext ==
    \/ \E p \in Procs, k \in DOMAIN called, b \in LiveValues : Insert(p, k, b)
    \/ \E p \in Procs, k \in DOMAIN called : Get(p, k)
    \/ \E p \in Procs : OptimisticDescend(p)
    \/ \E p \in Procs : OptimisticLeaf(p)
    \/ \E p \in Procs : InsertInternal(p)
    \/ \E p \in Procs : InsertLeaf(p)
    \/ \E p \in Procs : GetDescend(p)
    \/ \E p \in Procs : Cancel(p)

CancelSpec == CancelInit /\ [][CancelNext]_vars

(* ------------------------------ construction -------------------------- *)

\* the data directory a tree is constructed on: absent, or left by an earlier
\* tree with one or two segments
Directories == { <<>>, << <<>> >>, << <<1>> >>, << <<1, 1, 1>>, <<2>> >> }

\* no tree is constructed yet: there is no node
NewInit ==
    /\ files \in Directories
    /\ nodes = <<>>
    /\ t = 0
    /\ file_number = 0
    /\ offset = 0
    /\ bplus = [NewBPlus EXCEPT !.current_file = "none"]
    /\ script = <<>>
    /\ keyset = {}
    /\ called = <<>>
    /\ lin = <<>>
    /\ proc = [p \in Procs |-> Idle]
    /\ opsLeft = MaxWrites
    /\ completed = {}
    /\ racy = {}
    /\ overlapped = FALSE
    /\ handles = <<>>
    /\ snapshot = NoSnapshot
    /\ saver = IdleSaver
    /\ loader = "none"
    /\ keys_set = {}
    /\ spawned = {}
    /\ caller = IdleCaller
    /\ bplus_rs = new(2)
    /\ calls_rs = NoCalls

\* File::create: the file is made when it is not there and cut to no bytes when
\* it is; the handle is write-only
create(fs, number) ==
    [i \in 1..(IF number + 1 > Len(fs) THEN number + 1 ELSE Len(fs)) |->
        IF i = number + 1 THEN <<>> ELSE fs[i]]

\* BPlus::new(tt, path): create_dir_all, File::create of segment "0", an empty
\* leaf as root, file_number 0, offset 0, the default max_file_size
New(tt) ==
    /\ nodes = <<>>
    /\ files' = create(files, 0)
    /\ nodes' = <<Leaf(<<>>, NoLink)>>
    /\ t' = tt
    /\ file_number' = 0
    /\ offset' = 0
    /\ bplus' = NewBPlus
    /\ UNCHANGED <<proc, script, keyset, opsLeft, called, lin, completed, racy,
                   overlapped, handles, snapshot, saver, loader, keys_set, spawned,
                   caller, bplus_rs, calls_rs>>

\* a chunk write of the constructed tree
NewChunkWrite(b) == nodes # <<>> /\ ChunkWrite(b)

NewNext ==
    \/ \E tt \in 1..3 : New(tt)
    \/ \E b \in StoreValues : NewChunkWrite(b)

NewSpec == NewInit /\ [][NewNext]_vars

(* ------------------------------ minimal degree ------------------------ *)

\* t = 1: the empty tree with a few keys in any order, and the tree of the
\* inserts 1..10
MinConfigs ==
    { [t |-> 1, script |-> <<>>, keys |-> {1, 2, 3}, ops |-> 5],
      [t |-> 1, script |-> <<1, 2, 3, 4, 5, 6, 7, 8, 9, 10>>, keys |-> {0, 5}, ops |-> 2] }

MinInit == \E c \in MinConfigs : Start(c, c.ops)

\* one task: every operation runs to its end before the next is called
MinNext ==
    \/ \E k \in DOMAIN called, b \in PersistValues : Insert(1, k, b)
    \/ \E k \in DOMAIN called : Get(1, k)
    \/ OptimisticDescend(1)
    \/ OptimisticLeaf(1)
    \/ InsertInternal(1)
    \/ InsertLeaf(1)
    \/ GetDescend(1)

MinSpec == MinInit /\ [][MinNext]_vars

(* ------------------------- calls on the earlier tree ------------------- *)

\* tree = tree.insert(k, h), with a key not inserted before; the root is a leaf,
\* so insert_helper takes the branch of l.153
InsertRs(k, h) ==
    /\ bplus_rs.root.leaf
    /\ k \notin calls_rs.inserted
    /\ bplus_rs' = insert(bplus_rs, k, h)
    /\ calls_rs' = [calls_rs EXCEPT !.present[k] = Some(h), !.inserted = @ \cup {k},
                                    !.op = "insert", !.key = k, !.res = None]
    /\ UNCHANGED <<t, nodes, files, file_number, offset, bplus, proc, script, keyset,
                   opsLeft, called, lin, completed, racy, overlapped, handles, snapshot,
                   saver, loader, keys_set, spawned, caller>>

\* tree = tree.delete(k), with a key not deleted before
DeleteRs(k) ==
    /\ bplus_rs.root.leaf
    /\ k \notin calls_rs.deleted
    /\ bplus_rs' = delete(bplus_rs, k)
    /\ calls_rs' = [calls_rs EXCEPT !.present[k] = None, !.deleted = @ \cup {k},
                                    !.op = "delete", !.key = k, !.res = None]
    /\ UNCHANGED <<t, nodes, files, file_number, offset, bplus, proc, script, keyset,
                   opsLeft, called, lin, completed, racy, overlapped, handles, snapshot,
                   saver, loader, keys_set, spawned, caller>>

\* tree.find(k)
FindRs(k) ==
    /\ bplus_rs.root.leaf
    /\ calls_rs' = [calls_rs EXCEPT !.op = "find", !.key = k, !.res = find(bplus_rs, k)]
    /\ UNCHANGED <<t, nodes, files, file_number, offset, bplus, proc, script, keyset,
                   opsLeft, called, lin, completed, racy, overlapped, handles, snapshot,
                   saver, loader, keys_set, spawned, caller, bplus_rs>>

RsInit == Start([t |-> 2, script |-> <<>>, keys |-> {}], 0)

RsNext ==
    \/ \E k \in KeysRs, h \in HandlersRs : InsertRs(k, h)
    \/ \E k \in KeysRs : DeleteRs(k)
    \/ \E k \in 0..MaxKey : FindRs(k)

RsSpec == RsInit /\ [][RsNext]_vars

(* ------------------------------ BPlusStorage --------------------------- *)

\* the thread that calls BPlusStorage; block_on runs BPlus::get on it
Caller == 0

True == [kind |-> "true", bytes |-> <<>>]

\* BPlusStorage::insert: the key goes into keys_set, the closure is spawned on the
\* runtime (task p), Ok(()) is returned
StorageInsert(p, k, b) ==
    /\ caller.pc = "idle"
    /\ script = <<>>
    /\ k \in keyset
    /\ opsLeft > 0
    /\ opsLeft' = opsLeft - 1
    /\ p \notin spawned
    /\ keys_set' = keys_set \cup {k}
    /\ spawned' = spawned \cup {p}
    /\ proc' = [proc EXCEPT ![p] = [Idle EXCEPT !.pc = "spawned", !.op = "insert",
                                                !.key = k, !.bytes = b]]
    /\ caller' = [pc |-> "idle", op |-> "insert", key |-> k, res |-> NoResult]
    /\ called' = [called EXCEPT ![k] = Ok(b)]
    /\ UNCHANGED <<t, nodes, files, file_number, offset, bplus, script, keyset, lin,
                   completed, racy, overlapped, handles, snapshot, saver, loader,
                   bplus_rs, calls_rs>>

\* BPlusStorage::insert of a container whose extract() is Data::TargetChunk: the
\* match arm is unimplemented!(), a panic on the calling thread, before keys_set
\* is locked and before anything is spawned
StorageInsertTargetChunk(k) ==
    /\ caller.pc = "idle"
    /\ script = <<>>
    /\ k \in keyset
    /\ opsLeft > 0
    /\ opsLeft' = opsLeft - 1
    /\ caller' = [pc |-> "panicked", op |-> "insert_target_chunk", key |-> k,
                  res |-> NoResult]
    /\ UNCHANGED <<t, nodes, files, file_number, offset, bplus, proc, script, keyset,
                   called, lin, completed, racy, overlapped, handles, snapshot, saver,
                   loader, keys_set, spawned, bplus_rs, calls_rs>>

\* the spawned closure starts: BPlus::insert up to its first latch
TaskStart(p) ==
    /\ proc[p].pc = "spawned"
    /\ LET w == get_chunk_handler(files, file_number, offset, proc[p].bytes) IN
        /\ w.ok
        /\ bplus' = [bplus EXCEPT !.current_file = w.current_file]
        /\ files' = w.files
        /\ file_number' = w.file_number
        /\ offset' = w.offset
        /\ proc' = [proc EXCEPT ![p] = [@ EXCEPT !.pc = "o_desc", !.value = w.handle,
                                                 !.cur = Root]]
    /\ UNCHANGED <<aux, t, nodes, script, keyset, opsLeft, called, lin, completed, racy,
                   overlapped>>

\* the spawned closure ends: BPlus::insert has returned, the key leaves keys_set
TaskEnd(p) ==
    /\ p \in spawned
    /\ proc[p].pc = "idle"
    /\ keys_set' = keys_set \ {proc[p].key}
    /\ spawned' = spawned \ {p}
    /\ UNCHANGED <<t, nodes, files, file_number, offset, bplus, proc, script, keyset,
                   opsLeft, called, lin, completed, racy, overlapped, handles, snapshot,
                   saver, loader, caller, bplus_rs, calls_rs>>

\* BPlusStorage::get (op = "get") or BPlusStorage::contains (op = "contains", which
\* calls get): the call enters block_on
StorageGet(op, k) ==
    /\ caller.pc = "idle"
    /\ script = <<>>
    /\ k \in keyset
    /\ opsLeft > 0
    /\ opsLeft' = opsLeft - 1
    /\ caller' = [pc |-> "wait", op |-> op, key |-> k, res |-> NoResult]
    /\ UNCHANGED <<t, nodes, files, file_number, offset, bplus, proc, script, keyset,
                   called, lin, completed, racy, overlapped, handles, snapshot, saver,
                   loader, keys_set, spawned, bplus_rs, calls_rs>>

\* the sleep loop of get ends when keys_set does not hold the key; BPlus::get
\* starts, up to its first latch
StorageWait ==
    /\ caller.pc = "wait"
    /\ caller.key \notin keys_set
    /\ caller' = [caller EXCEPT !.pc = "get"]
    /\ proc' = [proc EXCEPT ![Caller] = [Idle EXCEPT !.pc = "g_desc", !.op = "get",
                                                     !.key = caller.key, !.cur = Root]]
    /\ UNCHANGED <<t, nodes, files, file_number, offset, bplus, script, keyset, opsLeft,
                   called, lin, completed, racy, overlapped, handles, snapshot, saver,
                   loader, keys_set, spawned, bplus_rs, calls_rs>>

\* BPlus::get has returned: get unwraps the result, which panics on an error, and
\* wraps the bytes in Ok; contains answers is_ok() of that
StorageReturn ==
    /\ caller.pc = "get"
    /\ proc[Caller].pc = "idle"
    /\ caller' = IF proc[Caller].res.kind # "Ok" THEN [caller EXCEPT !.pc = "panicked"]
                 ELSE IF caller.op = "contains"
                 THEN [caller EXCEPT !.pc = "idle", !.res = True]
                 ELSE [caller EXCEPT !.pc = "idle", !.res = proc[Caller].res]
    /\ UNCHANGED <<t, nodes, files, file_number, offset, bplus, proc, script, keyset,
                   opsLeft, called, lin, completed, racy, overlapped, handles, snapshot,
                   saver, loader, keys_set, spawned, bplus_rs, calls_rs>>

StorageConfigs ==
    { [t |-> 2, script |-> <<>>, keys |-> {1, 2}],
      [t |-> 2, script |-> <<10, 20, 30, 40>>, keys |-> {45, 50}] }

StorageInit == \E c \in StorageConfigs : StartWith(c, MaxOps, {Caller} \cup Procs)

\* the caller's calls, one after another, beside the closures spawned by insert
StorageNext ==
    \/ script # <<>> /\ Insert(1, Head(script), ScriptBytes(Head(script)))
    \/ \E p \in Procs, k \in DOMAIN called, b \in Values : StorageInsert(p, k, b)
    \/ \E k \in DOMAIN called : StorageInsertTargetChunk(k)
    \/ \E k \in DOMAIN called : StorageGet("get", k)
    \/ \E k \in DOMAIN called : StorageGet("contains", k)
    \/ \E p \in Procs : TaskStart(p)
    \/ \E p \in Procs : OptimisticDescend(p)
    \/ \E p \in Procs : OptimisticLeaf(p)
    \/ \E p \in Procs : InsertInternal(p)
    \/ \E p \in Procs : InsertLeaf(p)
    \/ \E p \in Procs : TaskEnd(p)
    \/ StorageWait
    \/ GetDescend(Caller)
    \/ StorageReturn

StorageSpec == StorageInit /\ [][StorageNext]_vars

(* -------------------------------- claims ------------------------------- *)

\* C1: one task, inserts one after another (any key order, keys repeating): a
\* following get(k) of an inserted key returns the bytes of the last insert of k.
C1_GetReturnsLastInsert ==
    (proc[1].pc = "idle" /\ proc[1].op = "get" /\ called[proc[1].key].kind = "Ok")
        => proc[1].res = called[proc[1].key]

C1_Witness ==
    /\ proc[1].pc = "idle" /\ proc[1].op = "get"
    /\ proc[1].res = Ok(<<2, 2>>)
    /\ lin[proc[1].key] = Ok(<<2, 2>>)
    /\ proc[1].key % 10 = 0
    /\ Len(nodes) >= 9

\* C2: get of a key no insert was ever called with returns NotFound, on the empty
\* tree and after inserts and splits.
C2_NeverInsertedNotFound ==
    \A p \in Procs :
        (proc[p].pc = "idle" /\ proc[p].op = "get" /\ called[proc[p].key].kind = "NotFound")
            => proc[p].res = NotFound

C2_Witness ==
    \E p \in Procs :
        /\ proc[p].pc = "idle" /\ proc[p].op = "get"
        /\ called[proc[p].key].kind = "NotFound"
        /\ proc[p].res = NotFound
        /\ ~nodes[Root].leaf
        /\ opsLeft = 0

\* C3: tasks inserting concurrently, no key by two inserts at one time: once all
\* have returned, get finds every inserted key with the bytes of its insert.
C3_ConcurrentInsertsFound ==
    Quiescent =>
        \A k \in DOMAIN called :
            (called[k].kind = "Ok" /\ k \notin racy) => get_from(Root, k) = called[k]

C3_Witness ==
    /\ Quiescent /\ overlapped /\ racy = {} /\ opsLeft = MaxOps - 2
    /\ proc[1].op = "insert" /\ proc[2].op = "insert"
    /\ proc[1].key # proc[2].key
    /\ 25 \in keyset /\ LeafDepths(Root, 0) = {2}
    /\ get_from(Root, proc[1].key) = Ok(proc[1].bytes)
    /\ get_from(Root, proc[2].key) = Ok(proc[2].bytes)

\* C4: per key, operations take effect in the order they latch the key's leaf:
\* a get returns the bytes of the latest insert that mutated the leaf before it,
\* and the bytes finally stored are those of the last such insert.
C4_Linearizable ==
    /\ [][\A p \in Procs : GetReturns(p) => proc'[p].res = lin[proc[p].key]]_vars
    /\ [](Quiescent => \A k \in DOMAIN lin : get_from(Root, k) = lin[k])

C4_Witness ==
    \E p \in Procs :
        /\ proc[p].pc = "idle" /\ proc[p].op = "get"
        /\ proc[p].key \in racy
        /\ proc[p].res.kind = "Ok"
        /\ proc[p].res # called[proc[p].key]

\* C5: a get(k) started after an insert of k returned answers with bytes of k
\* (those of the latest insert that mutated the leaf), never NotFound, whatever
\* splits other inserts make meanwhile.
C5_VisibleAfterReturn ==
    [][\A p \in Procs :
          (GetReturns(p) /\ proc[p].sawDone)
              => (proc'[p].res.kind = "Ok" /\ proc'[p].res = lin[proc[p].key])]_vars

C5_Witness ==
    \E p, q \in Procs :
        /\ proc[p].pc = "idle" /\ proc[p].op = "get" /\ proc[p].sawDone
        /\ proc[p].res.kind = "Ok"
        /\ proc[q].pc = "idle" /\ proc[q].op = "insert" /\ proc[q].key # proc[p].key
        /\ overlapped /\ opsLeft = MaxOps - 2
        /\ 25 \in keyset /\ LeafDepths(Root, 0) = {2}

\* C6: once all inserts have returned, the keys of every leaf and of every
\* internal node are strictly ascending and no key is in two leaf entries.
C6_KeysAscendingNoDuplicates ==
    Quiescent =>
        /\ \A id \in Subtree(Root) :
              /\ StrictlyAscending(nodes[id].keys)
              /\ StrictlyAscending(EntryKeys(nodes[id].entries))
        /\ \A a, b \in Subtree(Root) :
              (a # b /\ nodes[a].leaf /\ nodes[b].leaf)
                  => Range(EntryKeys(nodes[a].entries))
                         \cap Range(EntryKeys(nodes[b].entries)) = {}

C6_Witness ==
    /\ Quiescent /\ opsLeft = 0 /\ overlapped
    /\ Len(nodes) >= 11
    /\ \E id \in DOMAIN nodes : ~nodes[id].leaf /\ Len(nodes[id].keys) >= 2

\* C7: an internal node with n keys has n + 1 children; the keys below child i
\* are smaller than key i, those below child i + 1 are greater or equal.
C7_InternalArity ==
    Quiescent =>
        \A id \in Subtree(Root) : ~nodes[id].leaf =>
            /\ Len(nodes[id].children) = Len(nodes[id].keys) + 1
            /\ \A i \in 1..Len(nodes[id].keys) :
                  /\ \A k \in SubtreeKeys(nodes[id].children[i]) : k < nodes[id].keys[i]
                  /\ \A k \in SubtreeKeys(nodes[id].children[i + 1]) : k >= nodes[id].keys[i]

C7_Witness ==
    /\ Quiescent /\ opsLeft = 0
    /\ Len(nodes[Root].keys) = 2
    /\ \E i \in 1..3 : ~nodes[nodes[Root].children[i]].leaf

\* C8: with t >= 2, a non-root internal node holds t-1 to 2t-1 keys and a
\* non-root leaf t to 2t-1 entries.
C8_FanoutBounds ==
    Quiescent =>
        \A id \in Subtree(Root) \ {Root} :
            IF nodes[id].leaf
            THEN Len(nodes[id].entries) >= t /\ Len(nodes[id].entries) <= 2 * t - 1
            ELSE Len(nodes[id].keys) >= t - 1 /\ Len(nodes[id].keys) <= 2 * t - 1

C8_Witness ==
    /\ Quiescent /\ opsLeft = 0
    /\ \E id \in DOMAIN nodes : id # Root /\ nodes[id].leaf /\ Len(nodes[id].entries) = 2 * t - 1
    /\ \E id \in DOMAIN nodes : id # Root /\ ~nodes[id].leaf /\ Len(nodes[id].keys) = t - 1
    /\ \E id \in DOMAIN nodes : id # Root /\ ~nodes[id].leaf /\ Len(nodes[id].keys) = 2 * t - 2

Height == CHOOSE d \in LeafDepths(Root, 0) : \A e \in LeafDepths(Root, 0) : e <= d

\* the root node was rewritten in place over its former content and a split result
RootGrew ==
    /\ ~nodes'[Root].leaf
    /\ Len(nodes'[Root].keys) = 1
    /\ Len(nodes'[Root].children) = 2
    /\ nodes'[Root].children[1] \notin DOMAIN nodes
    /\ nodes'[Root].children[1] \in DOMAIN nodes'

\* C9: all leaves are at one depth; the depth changes only when the root grows,
\* and then by exactly one.
C9_UniformDepth ==
    /\ [](Cardinality(LeafDepths(Root, 0)) = 1)
    /\ [][(Height' # Height \/ RootGrew) => (RootGrew /\ Height' = Height + 1)]_vars

C9_Witness ==
    /\ Quiescent
    /\ LeafDepths(Root, 0) = {3}
    /\ opsLeft < MaxOps

\* C10: from the leftmost leaf the next links visit every leaf once, in key
\* order, and end at a leaf without next; the entries met are the inserted keys
\* in strictly ascending order.
C10_LeafChain ==
    Quiescent =>
        LET chain == Chain(Leftmost(Root), Len(nodes))
            met == Flatten([i \in 1..Len(chain) |-> EntryKeys(nodes[chain[i]].entries)])
        IN /\ nodes[Last(chain)].next = NoLink
           /\ Range(chain) = {id \in Subtree(Root) : nodes[id].leaf}
           /\ Len(chain) = Cardinality(Range(chain))
           /\ StrictlyAscending(met)
           /\ Range(met) = Stored
           /\ Len(met) = Cardinality(Stored)

C10_Witness ==
    /\ Quiescent /\ opsLeft = 0 /\ overlapped
    /\ Len(Chain(Leftmost(Root), Len(nodes))) >= 5
    /\ \E id \in DOMAIN nodes :
          nodes[id].leaf /\ nodes[id].next # NoLink /\ nodes[id].next < id

\* the entries of the leaves of the tree, and of a serialized tree
TreeEntries == UNION {Range(nodes[l].entries) : l \in Subtree(Root)}

RECURSIVE SnapshotEntries(_)
SnapshotEntries(sn) ==
    IF sn.leaf THEN Range(sn.entries)
    ELSE UNION {SnapshotEntries(sn.children[i]) : i \in 1..Len(sn.children)}

LoadStep == loader = "none" /\ loader' # "none"

\* save ran from its call to its return with no other operation in flight, and
\* none has started since
SavedAtRest == saver.quiet /\ saver.ops = opsLeft

\* C11: save on a tree at rest, then load: the loaded tree answers get as the
\* original does for every key (the bytes of the key's last insert, NotFound for a
\* key never inserted) and has the original's t, path, segment index, offset and
\* max_file_size.
C11_SaveLoadRoundTrip ==
    [][(LoadStep /\ SavedAtRest) =>
          /\ loader' = "done"
          /\ \A k \in DOMAIN lin :
                /\ get_from(Root, k)' = get_from(Root, k)
                /\ get_from(Root, k)' = lin[k]
          /\ t' = t
          /\ bplus'.path = bplus.path
          /\ file_number' = file_number
          /\ offset' = offset
          /\ bplus'.max_file_size = bplus.max_file_size]_vars

C11_Witness ==
    /\ loader = "done" /\ SavedAtRest
    /\ Len(nodes) >= 9
    /\ LeafDepths(Root, 0) = {2}
    /\ file_number >= 5
    /\ get_from(Root, 115) = Ok(<<>>)
    /\ get_from(Root, 110) = Ok(<<1>>)
    /\ get_from(Root, 15) = NotFound

\* handle a lies before handle b in the chunk files
Before(a, b) ==
    a # b /\ (a.path < b.path \/ (a.path = b.path /\ a.offset + a.size <= b.offset))

\* C12: while save serializes, no step changes a node or the segment index or
\* offset, and the file written holds the tree of one instant: every handle in it
\* lies below the saved cursor, and with an entry it holds every entry of the tree
\* whose chunk was written earlier.
C12_SaveFreezesTree ==
    [][/\ saver.pc = "nodes" =>
             (nodes' = nodes /\ file_number' = file_number /\ offset' = offset)
       /\ (snapshot = NoSnapshot /\ snapshot' # NoSnapshot) =>
             \A e \in SnapshotEntries(snapshot'.root) :
                 /\ Before(e.value, ChunkHandler(snapshot'.file_number, snapshot'.offset, 1))
                 /\ \A a \in TreeEntries :
                       Before(a.value, e.value) =>
                           \E x \in SnapshotEntries(snapshot'.root) : x.key = a.key]_vars

\* the file save wrote holds the entry of a later insert and lacks the entry of
\* an insert that had returned before that one was called
C12_TornSnapshot ==
    /\ snapshot # NoSnapshot
    /\ loader = "none"
    /\ \E e \in SnapshotEntries(snapshot.root), a \in TreeEntries :
          /\ Before(a.value, e.value)
          /\ \A x \in SnapshotEntries(snapshot.root) : x.key # a.key

\* C13: on a loaded tree an insert completes (the current segment accepts the
\* write) and get then returns its value.
C13_InsertAfterLoad ==
    loader = "done" =>
        \A p \in Procs :
            /\ proc[p].pc # "panicked"
            /\ (proc[p].pc = "idle" /\ proc[p].op = "insert")
                   => get_from(Root, proc[p].key) = Ok(proc[p].bytes)

\* a loaded tree on which an insert has completed: its chunk write rotated
C13_InsertAfterLoadRotated ==
    /\ loader = "done"
    /\ proc[1].pc = "idle" /\ proc[1].op = "insert"
    /\ opsLeft < saver.ops
    /\ bplus.current_file = "create"
    /\ get_from(Root, proc[1].key) = Ok(proc[1].bytes)

\* C14: after load of the snapshot of a tree that holds entries, the next links
\* from the leftmost leaf visit every leaf in key order and end at a leaf without
\* next.
C14_LinksRebuilt ==
    (loader = "done" /\ SavedAtRest /\ TreeEntries # {}) =>
        LET chain == Chain(Leftmost(Root), Len(nodes))
            met == Flatten([i \in 1..Len(chain) |-> EntryKeys(nodes[chain[i]].entries)])
        IN /\ nodes[Last(chain)].next = NoLink
           /\ Range(chain) = {id \in Subtree(Root) : nodes[id].leaf}
           /\ Len(chain) = Cardinality(Range(chain))
           /\ StrictlyAscending(met)

\* a loaded tree of several leaves whose links were rebuilt
C14_RebuiltChain ==
    /\ loader = "done" /\ SavedAtRest
    /\ Len(Chain(Leftmost(Root), Len(nodes))) >= 5
    /\ Range(Chain(Leftmost(Root), Len(nodes))) = {id \in Subtree(Root) : nodes[id].leaf}

\* the range of bytes a handle names
ByteRange(h) == {h.offset + i : i \in 1..h.size}

\* C15: every chunk write returns a handle naming the segment that received the
\* bytes, the write cursor before the write (0 when the write rotated) and the
\* length of the value, and advances the cursor by exactly that length.
C15_HandleOfWrite ==
    [][handles' # handles =>
          LET h == Last(handles').handle
              b == Last(handles').bytes
          IN /\ h.path = file_number'
             /\ h.offset = (IF file_number' = file_number THEN offset ELSE 0)
             /\ h.size = Len(b)
             /\ offset' = h.offset + Len(b)
             /\ SubSeq(files'[h.path + 1], h.offset + 1, h.offset + h.size) = b
             /\ \A n \in 1..Len(files) : n # h.path + 1 => files'[n] = files[n]]_vars

C15_Witness ==
    /\ Len(handles) = 3
    /\ handles[1].bytes = <<1>>
    /\ handles[2].bytes = <<>>
    /\ handles[3].bytes = <<3, 3, 3>>
    /\ handles[3].handle = ChunkHandler(0, 1, 3)
    /\ offset = 4

\* C16: a chunk write rotates exactly when the cursor it finds is at or beyond
\* max_file_size; rotation takes the next segment index and writes at offset 0 of
\* a new file; a write that ends beyond the limit does not rotate (a value of at
\* least max_file_size bytes and then a one-byte value end with segment 1 and
\* offset 1, the first read from segment 0, the second from segment 1).
C16_RotationBeforeWrite ==
    [][handles' # handles =>
          LET h == Last(handles').handle
              b == Last(handles').bytes
          IN /\ (file_number' # file_number) <=> (offset >= bplus.max_file_size)
             /\ file_number' # file_number =>
                    /\ file_number' = file_number + 1
                    /\ h.offset = 0
                    /\ files'[file_number' + 1] = b
             /\ h.path = file_number'
             /\ (Len(handles') = 2 /\ Len(handles[1].bytes) >= bplus.max_file_size
                     /\ handles[1].handle.offset = 0 /\ b = <<1>>) =>
                    /\ file_number' = 1 /\ offset' = 1
                    /\ handles[1].handle.path = 0 /\ h.path = 1
                    /\ read(files', handles[1].handle) = Ok(handles[1].bytes)
                    /\ read(files', h) = Ok(b)]_vars

C16_Witness ==
    /\ Len(handles) = 2
    /\ handles[1].bytes = <<3, 3, 3>>
    /\ handles[2].bytes = <<1>>
    /\ file_number = 1
    /\ offset = 1
    /\ Len(files[1]) > bplus.max_file_size

\* C17: at every later time reading a handle returns the bytes of its write; the
\* byte ranges of two handles are in different segments or disjoint; every
\* handle's segment exists.
C17_HandlesReadBack ==
    \A i \in 1..Len(handles) :
        /\ handles[i].handle.path + 1 \in 1..Len(files)
        /\ read(files, handles[i].handle) = Ok(handles[i].bytes)
        /\ \A j \in 1..Len(handles) :
              (i # j /\ handles[i].handle.path = handles[j].handle.path)
                  => ByteRange(handles[i].handle) \cap ByteRange(handles[j].handle) = {}

C17_Witness ==
    /\ Len(handles) = MaxWrites
    /\ file_number = 2
    /\ \E i, j \in 1..Len(handles) :
          /\ i < j
          /\ handles[i].handle.path = 0 /\ handles[i].handle.size > 0
          /\ handles[j].handle.path = 0 /\ handles[j].handle.size > 0

\* C18: an insert whose chunk write fails ends before it touches the tree: the
\* step changes no node, so no leaf holds an entry of that insert.
C18_WriteFailureLeavesTree ==
    [][\A p \in Procs :
          (proc[p].pc = "idle" /\ proc'[p].pc = "panicked") =>
              /\ nodes' = nodes
              /\ TreeEntries' = TreeEntries]_vars

C18_Witness ==
    /\ loader = "done"
    /\ proc[1].pc = "panicked" /\ proc[1].op = "insert"
    /\ proc[1].key \notin SubtreeKeys(Root)
    /\ ~nodes[Root].leaf
    /\ bplus.current_file = "open"

\* C19: contains(k) is true exactly when get(k) succeeds; for a key never
\* inserted contains returns false and get returns an error value (no call ends
\* in a panic).
C19_ContainsIffGet ==
    /\ caller.pc # "panicked"
    /\ (caller.pc = "idle" /\ caller.op = "contains")
           => (caller.res = True <=> called[caller.key].kind = "Ok")
    /\ (caller.pc = "idle" /\ caller.op = "get" /\ called[caller.key].kind = "NotFound")
           => caller.res.kind = "NotFound"

\* contains has returned true for an inserted key
C19_ContainsTrue ==
    /\ caller.pc = "idle" /\ caller.op = "contains" /\ caller.res = True
    /\ called[caller.key].kind = "Ok"

\* C20: get(k) reads the tree only when no insert(k, .) issued before it is still
\* running, and returns the value of the last of them.
C20_GetAfterInserts ==
    /\ caller.pc = "get" =>
           \A p \in spawned : proc[p].key = caller.key => proc[p].pc = "idle"
    /\ (caller.pc = "idle" /\ caller.op = "get") => caller.res = called[caller.key]

\* get has waited for the one insert of its key in flight and returned its value
C20_SingleInsertAwaited ==
    /\ caller.pc = "idle" /\ caller.op = "get"
    /\ caller.res = called[caller.key]
    /\ caller.res = Ok(<<2, 2>>)
    /\ opsLeft = MaxOps - 2
    /\ ~nodes[Root].leaf

\* the result the interface has for a container variant that is not supported
Unsupported == [kind |-> "Unsupported", bytes |-> <<>>]

\* C21: insert of a container holding a target chunk returns an Unsupported error
\* to the caller, and leaves the tree, the chunk store and keys_set as they were.
C21_TargetChunkUnsupported ==
    caller.op = "insert_target_chunk"
        => (caller.pc = "idle" /\ caller.res = Unsupported)

\* the insert of a target chunk has panicked beside a spawned insert of the same
\* key, whose key is still in keys_set
C21_TargetChunkPanics ==
    /\ caller.op = "insert_target_chunk" /\ caller.pc = "panicked"
    /\ caller.key \in keys_set
    /\ \E p \in spawned : proc[p].key = caller.key /\ proc[p].pc = "spawned"

\* task p applies its insert in this step: the optimistic attempt at a leaf with
\* room, or the pessimistic path at the leaf
Applies(p) ==
    /\ proc[p].op = "insert"
    /\ proc[p].pc \in {"o_leaf", "p_desc"}
    /\ proc'[p].pc = "idle"

\* C22: an insert whose key is in the tree replaces the value of that entry and
\* nothing else: the nodes, their keys, children and next links, the keys of every
\* leaf and every other entry stay, and no node is added, also in a leaf that
\* holds 2t - 1 entries.
C22_OverwriteInPlace ==
    [][\A p \in Procs :
          (Applies(p) /\ proc[p].key \in SubtreeKeys(Root)) =>
              /\ Len(nodes') = Len(nodes)
              /\ \A id \in 1..Len(nodes) :
                    /\ nodes'[id].leaf = nodes[id].leaf
                    /\ nodes'[id].keys = nodes[id].keys
                    /\ nodes'[id].children = nodes[id].children
                    /\ nodes'[id].next = nodes[id].next
                    /\ EntryKeys(nodes'[id].entries) = EntryKeys(nodes[id].entries)
                    /\ \A i \in 1..Len(nodes[id].entries) :
                          nodes'[id].entries[i].value =
                              IF nodes[id].entries[i].key = proc[p].key
                              THEN proc[p].value
                              ELSE nodes[id].entries[i].value]_vars

\* a root leaf holding 2t - 1 entries in which an insert of two bytes, made after
\* the scripted ones, has replaced the value of an entry
C22_OverwriteInFullLeaf ==
    /\ script = <<>> /\ opsLeft = MaxOps - 1
    /\ nodes[Root].leaf /\ Len(nodes[Root].entries) = 2 * t - 1
    /\ \E p \in Procs :
          /\ proc[p].pc = "idle" /\ proc[p].op = "insert" /\ proc[p].bytes = <<2, 2>>
          /\ \E i \in 1..Len(nodes[Root].entries) :
                nodes[Root].entries[i] = [key |-> proc[p].key, value |-> proc[p].value]

\* the node a waiting task requests lies below the latches the task holds: the
\* root when it holds none, else a child of the innermost node it holds
TopDown ==
    /\ \A p \in Procs :
          LET pr == proc[p] IN
          /\ pr.pc \in {"g_desc", "o_desc", "o_leaf"} =>
                /\ pr.guards = <<>>
                /\ IF pr.prev = NoLink THEN pr.cur = Root /\ pr.pc # "o_leaf"
                   ELSE InSeq(pr.cur, nodes[pr.prev].children)
          /\ pr.pc = "p_desc" =>
                /\ pr.prev = NoLink
                /\ IF pr.guards = <<>> THEN pr.cur = Root
                   ELSE InSeq(pr.cur, nodes[Last(pr.guards)].children)
                /\ \A i \in 1..(Len(pr.guards) - 1) :
                      InSeq(pr.guards[i + 1], nodes[pr.guards[i]].children)
    /\ saver.pc = "nodes" =>
          /\ \A i \in 1..(Len(saver.held) - 1) :
                InSeq(saver.held[i + 1], nodes[saver.held[i]].children)
          /\ saver.held # <<>> =>
                /\ saver.held[1] = Root
                /\ Last(saver.idx) \in 1..Len(nodes[Last(saver.held)].children)

\* C23: under fair latch scheduling every get, insert and save that was started
\* completes, whatever runs beside it; latches are requested top-down only.
C23_OperationsComplete ==
    /\ \A p \in Procs : (proc[p].pc \notin {"idle", "panicked"}) ~> (proc[p].pc = "idle")
    /\ (saver.pc # "idle") ~> (saver.pc = "idle")
    /\ []TopDown

\* a pessimistic insert waits for a node whose latch is held, while save holds
\* read guards and the other task is in flight too
C23_Witness ==
    /\ \E p \in Procs : proc[p].pc = "p_desc" /\ ~CanWrite(proc[p].cur)
    /\ \A p \in Procs : InFlight(p)
    /\ saver.pc = "nodes" /\ saver.held # <<>>

\* BPlus::save holds the tree latch in write mode from its first step to its return
SaveHoldsTreeLatch == saver.pc # "idle"

\* task p takes the latch of the root node in this step, the first latch of its
\* get, of its optimistic attempt or of its pessimistic descent
TakesRootLatch(p) ==
    /\ proc[p].pc \in {"g_desc", "o_desc", "p_desc"}
    /\ proc[p].cur = Root /\ proc[p].prev = NoLink /\ proc[p].guards = <<>>
    /\ proc'[p] # proc[p]

\* C24: get and the optimistic attempt hold the tree latch in shared mode, the
\* pessimistic insert holds it in write mode, until they hold the latch of the
\* root node; so none of them takes the root's latch while save holds the tree
\* latch in write mode.
C24_TreeLatchHeld ==
    [][\A p \in DOMAIN proc : TakesRootLatch(p) => ~SaveHoldsTreeLatch]_vars

\* an operation called after save took the tree latch holds the read latch of
\* the root node, save still holding the tree latch
C24_RootLatchedUnderSave ==
    /\ SaveHoldsTreeLatch
    /\ saver.ops > opsLeft
    /\ proc[1].pc \in {"g_desc", "o_desc"} /\ proc[1].prev = Root

\* C25: get takes read latches only, hand over hand: it never holds a write
\* guard; while it waits for the latch of a node below the root it holds the read
\* guard of that node's parent and no other, so with the latch it is granted it
\* holds two, never more; it holds none once it has returned.
C25_GetHandOverHand ==
    \A p \in Procs :
        proc[p].op = "get" =>
            /\ proc[p].guards = <<>>
            /\ proc[p].pc = "idle" => proc[p].prev = NoLink
            /\ proc[p].pc = "g_desc" =>
                  IF proc[p].cur = Root THEN proc[p].prev = NoLink
                  ELSE /\ proc[p].prev # NoLink
                       /\ InSeq(proc[p].cur, nodes[proc[p].prev].children)
                       /\ ~WriteLatched(proc[p].prev)

\* a get holds the read guard of an internal node below the root and waits for
\* the leaf under it, for which an insert of another task waits too
C25_Witness ==
    \E p \in Procs :
        /\ proc[p].op = "get" /\ proc[p].pc = "g_desc"
        /\ proc[p].prev \notin {NoLink, Root}
        /\ nodes[proc[p].cur].leaf
        /\ \E q \in Procs : q # p /\ proc[q].pc = "o_leaf" /\ proc[q].cur = proc[p].cur

\* task p takes a step of its insert
InsertStep(p) == proc[p].op = "insert" /\ proc[p].pc # "idle" /\ proc'[p] # proc[p]

\* the entry of key k in the leaves of ns, as a set: one entry, or none
EntryOf(ns, k) ==
    UNION {{e \in Range(ns[id].entries) : e.key = k} : id \in 1..Len(ns)}

\* C26: the optimistic attempt changes no node on its way down and holds no write
\* guard there; at the leaf it changes that leaf only, and only when the leaf
\* holds fewer than 2t - 1 entries (value replaced on a match, entry added in key
\* order on a miss); at a leaf with 2t - 1 entries, and at a root that is a leaf,
\* it changes nothing and the pessimistic path starts at the root.  The steps of
\* an insert that do not end it change no node, and the step that ends it leaves
\* the key with the value of the call: the tree is changed once per call.
C26_OptimisticFrame ==
    [][\A p \in Procs : InsertStep(p) =>
          LET pr == proc[p]
              n == nodes[pr.cur]
          IN /\ pr.pc \in {"o_desc", "o_leaf"} => pr.guards = <<>> /\ proc'[p].guards = <<>>
             /\ pr.pc = "o_desc" =>
                   /\ nodes' = nodes
                   /\ (n.leaf /\ pr.prev = NoLink) =>
                         (proc'[p].pc = "p_desc" /\ proc'[p].cur = Root)
             /\ (pr.pc = "o_leaf" /\ Len(n.entries) >= 2 * t - 1) =>
                   /\ nodes' = nodes
                   /\ proc'[p].pc = "p_desc" /\ proc'[p].cur = Root
                   /\ proc'[p].prev = NoLink
             /\ (pr.pc = "o_leaf" /\ Len(n.entries) < 2 * t - 1) =>
                   /\ proc'[p].pc = "idle"
                   /\ Len(nodes') = Len(nodes)
                   /\ \A id \in 1..Len(nodes) : id # pr.cur => nodes'[id] = nodes[id]
                   /\ nodes'[pr.cur].next = n.next /\ nodes'[pr.cur].leaf
                   /\ Range(nodes'[pr.cur].entries) =
                          {e \in Range(n.entries) : e.key # pr.key}
                              \cup {[key |-> pr.key, value |-> pr.value]}
                   /\ StrictlyAscending(EntryKeys(nodes'[pr.cur].entries))
             /\ proc'[p].pc # "idle" => nodes' = nodes
             /\ proc'[p].pc = "idle" =>
                   EntryOf(nodes', pr.key) = {[key |-> pr.key, value |-> pr.value]}]_vars

\* the optimistic attempt has given up at a full leaf below the root, the tree as
\* it was, and the pessimistic path is about to start at the root
C26_Witness ==
    \E p \in Procs :
        /\ proc[p].pc = "p_desc" /\ proc[p].cur = Root /\ proc[p].guards = <<>>
        /\ ~nodes[Root].leaf
        /\ proc[p].key \notin SubtreeKeys(Root)
        /\ ~overlapped

\* internal node id holds 2t - 2 keys: one more makes it split
Full(id) == Len(nodes[id].keys) = 2 * t - 2

\* C27: in the pessimistic descent the guards of the ancestors are released at
\* an internal node exactly when it does not hold 2t - 2 keys.  So the guards a
\* descending task holds are those of the node above the one it asks for and of
\* the unbroken chain of nodes above it that hold 2t - 2 keys, plus the first
\* node above that chain: each is the parent of the next along the path, all but
\* the topmost hold 2t - 2 keys, and the topmost is the root or does not.
C27_RetainedChain ==
    \A p \in Procs :
        proc[p].pc = "p_desc" =>
            LET g == proc[p].guards
                path == proc[p].path
                off == Len(path) - Len(g)
            IN /\ Len(g) <= Len(path)
               /\ (g = <<>>) = (path = <<>>)
               /\ \A i \in 1..Len(g) :
                     nodes[g[i]].children[path[off + i] + 1] =
                         IF i = Len(g) THEN proc[p].cur ELSE g[i + 1]
               /\ \A i \in 2..Len(g) : Full(g[i])
               /\ Len(g) < Len(path) => ~Full(g[1])
               /\ Len(g) = Len(path) /\ g # <<>> => g[1] = Root

\* a task at a leaf of a tree of depth 3 holds the guards of the leaf's parent,
\* which has 2t - 2 keys, and of the root above it
C27_Witness ==
    \E p \in Procs :
        /\ proc[p].pc = "p_desc" /\ nodes[proc[p].cur].leaf
        /\ Len(proc[p].guards) = 2 /\ Len(proc[p].path) = 2
        /\ Full(proc[p].guards[2])

\* task p takes the leaf step of its pessimistic insert
LeafStep(p) ==
    /\ proc[p].pc = "p_desc" /\ nodes[proc[p].cur].leaf
    /\ proc'[p] # proc[p]

\* what the leaf step of task p finds once the leaf is mutated: the split result
\* and the guards retained
AtLeaf(p) ==
    insert_leaf(nodes, proc[p].cur, proc[p].key, proc[p].value, proc[p].path,
                proc[p].guards, t)

\* what the upward pass of task p leaves for the root growth
AtRoot(p) ==
    ascend(AtLeaf(p).nodes, proc[p].path, AtLeaf(p).guards, AtLeaf(p).sr, t)

\* C28: in the pessimistic path every split result is installed under a guard
\* retained from the descent: the guard at the end of the stack is that of the
\* parent of the leaf that split, no pop finds the stack empty on the way up, and
\* a split that reaches the top finds the guard of the root; the operation
\* returns, no latch being asked for after the leaf's.
C28_GuardRetainedForInstall ==
    [][\A p \in Procs : LeafStep(p) =>
          /\ (AtLeaf(p).sr.some /\ proc[p].path # <<>>) =>
                /\ AtLeaf(p).guards # <<>>
                /\ nodes[Last(AtLeaf(p).guards)].children[Last(proc[p].path) + 1]
                       = proc[p].cur
          /\ ~AtRoot(p).panic
          /\ AtRoot(p).sr.some =>
                (AtRoot(p).guards # <<>> /\ Last(AtRoot(p).guards) = Root)
          /\ proc'[p].pc = "idle" /\ proc'[p].guards = <<>>]_vars

\* a task is granted the latch of a leaf whose split goes up through the parent,
\* which splits too, to the root, which grows: it holds the guards of both,
\* another task being in flight
C28_Witness ==
    \E p \in Procs :
        /\ proc[p].pc = "p_desc" /\ nodes[proc[p].cur].leaf /\ CanWrite(proc[p].cur)
        /\ AtLeaf(p).sr.some /\ Len(AtLeaf(p).guards) >= 2
        /\ AtRoot(p).sr.some
        /\ \E q \in Procs : q # p /\ InFlight(q)

\* C29: when a leaf below the root splits, the median and the new right sibling
\* go into the parent while the inserting task holds the write guards of the
\* parent and of the leaf that split.
C29_BothLatchesHeld ==
    [][\A p \in Procs :
          (LeafStep(p) /\ AtLeaf(p).sr.some /\ proc[p].path # <<>>) =>
              /\ AtLeaf(p).guards # <<>>
              /\ nodes[Last(AtLeaf(p).guards)].children[Last(proc[p].path) + 1]
                     = proc[p].cur
              /\ InSeq(proc[p].cur, AtLeaf(p).guards)]_vars

\* the leaf 90, 100, 110 below the root has split on the insert of 95 and its
\* parent holds the new right sibling
C29_SplitInstalled ==
    \E l \in 1..Len(nodes), q \in 1..Len(nodes) :
        /\ nodes[l].leaf /\ EntryKeys(nodes[l].entries) = <<90, 95>>
        /\ nodes[l].next # NoLink
        /\ EntryKeys(nodes[nodes[l].next].entries) = <<100, 110>>
        /\ ~nodes[q].leaf /\ q # Root
        /\ InSeq(l, nodes[q].children) /\ InSeq(nodes[l].next, nodes[q].children)

\* C30: a node changes only in a step of an insert that holds the node's write
\* guard when it changes it (the leaf latched in that step, or an ancestor whose
\* guard is retained from the descent), no other task holding a guard of that
\* node; the steps of get and of save change no node.
C30_ChangesUnderWriteLatch ==
    [][\A id \in 1..Len(nodes) :
          nodes'[id] # nodes[id] =>
              \E p \in Procs :
                  /\ proc[p].op = "insert" /\ proc'[p] # proc[p]
                  /\ \/ proc[p].pc \in {"o_leaf", "p_desc"} /\ id = proc[p].cur
                     \/ /\ proc[p].pc = "p_desc"
                        /\ InSeq(id, proc[p].guards) /\ InSeq(id, AtLeaf(p).guards)
                  /\ \A q \in Procs \ {p} : ~InSeq(id, proc[q].guards) /\ proc[q].prev # id
                  /\ ~InSeq(id, saver.held)]_vars

\* a task is granted the latch of a leaf that will split, so that its parent
\* changes too, while save is at work and the other task waits for the parent
C30_Witness ==
    \E p \in Procs :
        /\ proc[p].pc = "p_desc" /\ nodes[proc[p].cur].leaf /\ CanWrite(proc[p].cur)
        /\ AtLeaf(p).sr.some /\ proc[p].guards # <<>>
        /\ saver.pc = "nodes"
        /\ \E q \in Procs : q # p /\ InFlight(q) /\ proc[q].cur = Last(proc[p].guards)

\* node id was split in this step: a leaf that lost entries or is no leaf any
\* more, an internal node that lost keys
WasSplit(id) ==
    IF nodes[id].leaf
    THEN ~nodes'[id].leaf \/ Len(nodes'[id].entries) < Len(nodes[id].entries)
    ELSE Len(nodes'[id].keys) < Len(nodes[id].keys)

\* C31: a node whose write guard no task holds has fewer than 2t entries (leaf)
\* or fewer than 2t - 1 keys (internal node); a node is split only when it holds
\* exactly 2t entries or 2t - 1 keys: a leaf that is split held 2t - 1 entries
\* without the key put into it, an internal node 2t - 2 keys before the median
\* of its child went into it.
C31_NoOverfullRelease ==
    /\ [](\A id \in 1..Len(nodes) :
             ~WriteLatched(id) =>
                 IF nodes[id].leaf THEN Len(nodes[id].entries) < 2 * t
                 ELSE Len(nodes[id].keys) < 2 * t - 1)
    /\ [][\A id \in 1..Len(nodes) :
             WasSplit(id) =>
                 IF nodes[id].leaf
                 THEN /\ Len(nodes[id].entries) = 2 * t - 1
                      /\ \E p \in Procs :
                            /\ LeafStep(p) /\ proc[p].cur = id
                            /\ proc[p].key \notin Range(EntryKeys(nodes[id].entries))
                 ELSE Len(nodes[id].keys) = 2 * t - 2]_vars

\* at rest after the insert of 145 into the tree of the fifteen scripted inserts:
\* the leaf 130, 140, 150, its parent and the root were split and the root grew,
\* while another task was in flight
C31_Witness ==
    /\ Quiescent /\ script = <<>> /\ overlapped
    /\ 145 \in SubtreeKeys(Root)
    /\ LeafDepths(Root, 0) = {3}
    /\ Len(nodes[Root].keys) = 1
    /\ \E id \in Subtree(Root) : nodes[id].leaf /\ Len(nodes[id].entries) = 2 * t - 1

\* the nodes as the leaf step of task p finds them once the entry is put
LeafPut(p) ==
    [nodes EXCEPT ![proc[p].cur].entries = leaf_put(@, proc[p].key, proc[p].value)]

\* C32: the split of a leaf of 2t entries leaves entries[0..t] in the old leaf and
\* gives entries[t..] to a new right leaf, t entries each; the median returned is
\* the first key of the right leaf and stays there; the new leaf has the old
\* leaf's next link and the old leaf's next link is the new leaf; the two leaves
\* together hold the entries of the leaf that was split, each once; and so the
\* two leaves stand in the tree when the insert returns.
C32_LeafSplit ==
    [][\A p \in Procs : (LeafStep(p) /\ AtLeaf(p).sr.some) =>
          LET id == proc[p].cur
              before == LeafPut(p)[id].entries
              r == split(LeafPut(p), id, t)
              left == r.nodes[id]
              right == r.nodes[r.sr.link]
              at == IF proc[p].path = <<>> THEN nodes'[Root].children[1] ELSE id
          IN /\ Len(before) = 2 * t
             /\ left.entries = SubSeq(before, 1, t)
             /\ right.entries = SubSeq(before, t + 1, 2 * t)
             /\ Len(left.entries) = t /\ Len(right.entries) = t
             /\ left.entries \o right.entries = before
             /\ r.sr.median = right.entries[1].key
             /\ r.sr.link \notin DOMAIN nodes
             /\ right.leaf /\ right.next = nodes[id].next
             /\ left.leaf /\ left.next = r.sr.link
             /\ nodes'[at] = left
             /\ nodes'[r.sr.link] = right
             /\ \E q \in 1..Len(nodes') :
                   ~nodes'[q].leaf /\ InSeq(r.sr.median, nodes'[q].keys)]_vars

\* the leaf 10, 20, 25 has split on the insert of 15: the right half 20, 25 has
\* taken over the link to the leaf that starts with 30
C32_Witness ==
    \E l \in 1..Len(nodes) :
        /\ nodes[l].leaf /\ EntryKeys(nodes[l].entries) = <<10, 15>>
        /\ nodes[l].next # NoLink
        /\ EntryKeys(nodes[nodes[l].next].entries) = <<20, 25>>
        /\ nodes[nodes[l].next].next # NoLink
        /\ nodes[nodes[nodes[l].next].next].entries[1].key = 30
        /\ \E q \in Subtree(Root) :
              /\ ~nodes[q].leaf /\ InSeq(20, nodes[q].keys)
              /\ InSeq(l, nodes[q].children) /\ InSeq(nodes[l].next, nodes[q].children)

\* the links allocated in this step
NewLinks == (1..Len(nodes')) \ (1..Len(nodes))

\* C33: the split of an internal node of 2t - 1 keys and 2t children leaves t - 1
\* keys and t children in the old node and gives t - 1 keys and t children to a
\* new right node; the median goes into the parent, between the two, and is in
\* neither half; left keys, median, right keys are the keys of the node in their
\* order, left children then right children its children in their order, each
\* child once.  (The node is the one that held 2t - 2 keys and took the median
\* and the new sibling of a child that split; a root that splits is found behind
\* the first child of the grown root.)
C33_InternalSplit ==
    [][\A id \in 1..Len(nodes) : (~nodes[id].leaf /\ WasSplit(id)) =>
          LET n == nodes[id]
              at == IF id = Root THEN nodes'[Root].children[1] ELSE id
              left == nodes'[at]
          IN \E sib \in NewLinks, par \in 1..Len(nodes') :
                LET right == nodes'[sib]
                    up == nodes'[par]
                IN /\ ~left.leaf /\ ~right.leaf /\ ~up.leaf
                   /\ Len(left.keys) = t - 1 /\ Len(left.children) = t
                   /\ Len(right.keys) = t - 1 /\ Len(right.children) = t
                   /\ \E i \in 1..Len(up.keys) :
                         /\ up.children[i] = at /\ up.children[i + 1] = sib
                         /\ ~InSeq(up.keys[i], left.keys)
                         /\ ~InSeq(up.keys[i], right.keys)
                         /\ StrictlyAscending(left.keys \o <<up.keys[i]>> \o right.keys)
                         /\ \E pos \in 0..Len(n.keys), c \in NewLinks :
                               /\ left.keys \o <<up.keys[i]>> \o right.keys =
                                      InsertAt(n.keys, pos, (left.keys \o <<up.keys[i]>>
                                                               \o right.keys)[pos + 1])
                               /\ left.children \o right.children =
                                      InsertAt(n.children, pos + 1, c)
                   /\ Cardinality(Range(left.children \o right.children)) = 2 * t]_vars

\* the internal node 70, 90 below the root has split on the insert of 95: 90 went
\* up into the root, 70 and 100 are the halves
C33_Witness ==
    /\ nodes[Root].keys = <<50, 90>>
    /\ nodes[nodes[Root].children[2]].keys = <<70>>
    /\ nodes[nodes[Root].children[3]].keys = <<100>>
    /\ 95 \in SubtreeKeys(nodes[nodes[Root].children[3]].children[1])
    /\ Cardinality(LeafDepths(Root, 0)) = 1

\* the root node as a task that latches it may find it: a leaf, or an internal
\* node with a key, one child more than keys, and every child behind its link
RootWhole ==
    \/ nodes[Root].leaf /\ Len(nodes[Root].entries) < 2 * t
    \/ /\ ~nodes[Root].leaf
       /\ Len(nodes[Root].keys) >= 1
       /\ Len(nodes[Root].children) = Len(nodes[Root].keys) + 1
       /\ \A i \in 1..Len(nodes[Root].children) :
             nodes[Root].children[i] \in 1..Len(nodes) \ {Root}

\* C34: when a split overflows the root (a leaf or an internal node), the root
\* node becomes an internal node with one key, the median, and two children: the
\* left half of the old root, behind a new link, and the new right sibling.  The
\* step is taken by the task that holds the write guard of the root, no other
\* task and not save holding a guard of it, and the root link stays the same; at
\* every time the root node is whole.  With t = 2 and the keys 1, 2, 3, 4
\* inserted: the root has the separator 3, the left leaf 1, 2 and the right leaf
\* 3, 4; the left leaf's next is the right leaf, which has no next.
C34_RootGrowth ==
    /\ [][WasSplit(Root) =>
             \E p \in Procs :
                LET r == nodes'[Root]
                    left == nodes'[r.children[1]]
                    right == nodes'[r.children[2]]
                IN /\ LeafStep(p)
                   /\ proc[p].cur = Root \/ InSeq(Root, proc[p].guards)
                   /\ \A q \in Procs \ {p} :
                         ~InSeq(Root, proc[q].guards) /\ proc[q].prev # Root
                   /\ ~InSeq(Root, saver.held)
                   /\ AtRoot(p).sr.some /\ Last(AtRoot(p).guards) = Root
                   /\ ~r.leaf /\ Len(r.keys) = 1 /\ Len(r.children) = 2
                   /\ r.keys[1] = AtRoot(p).sr.median
                   /\ r.children[1] \in NewLinks
                   /\ left = AtRoot(p).nodes[Root]
                   /\ r.children[2] = AtRoot(p).sr.link /\ r.children[2] \in NewLinks
                   /\ left.leaf = nodes[Root].leaf /\ right.leaf = nodes[Root].leaf
                   /\ nodes[Root].leaf =>
                         /\ left.entries \o right.entries = LeafPut(p)[Root].entries
                         /\ Len(left.entries) = t /\ Len(right.entries) = t
                         /\ r.keys[1] = right.entries[1].key
                         /\ left.next = r.children[2] /\ right.next = NoLink
                   /\ ~nodes[Root].leaf =>
                         /\ Len(left.keys) = t - 1 /\ Len(right.keys) = t - 1
                         /\ Len(left.children) = t /\ Len(right.children) = t
                         /\ SubSeq(nodes[Root].keys, 1, t - 1) = left.keys
                               \/ SubSeq(nodes[Root].keys, t, 2 * t - 2) = right.keys]_vars
    /\ []RootWhole
    /\ []((t = 2 /\ Stored = {1, 2, 3, 4}) =>
             /\ nodes[Root].keys = <<3>> /\ Len(nodes[Root].children) = 2
             /\ LET left == nodes[nodes[Root].children[1]]
                    right == nodes[nodes[Root].children[2]]
                IN /\ left.leaf /\ EntryKeys(left.entries) = <<1, 2>>
                   /\ right.leaf /\ EntryKeys(right.entries) = <<3, 4>>
                   /\ left.next = nodes[Root].children[2]
                   /\ right.next = NoLink)

\* the keys 1, 2, 3, 4 are inserted, the last by a task that found a get of
\* another task in flight, and save has read the grown root
C34_Witness ==
    /\ t = 2 /\ Stored = {1, 2, 3, 4}
    /\ overlapped
    /\ nodes[Root].keys = <<3>>
    /\ saver.pc = "nodes" /\ saver.held = <<Root>> /\ ~saver.seen[Root].leaf

\* task p, waiting for an internal node, is granted its latch in this step
RoutedStep(p) ==
    /\ proc[p].pc \in {"g_desc", "o_desc", "p_desc"}
    /\ ~nodes[proc[p].cur].leaf
    /\ proc'[p] # proc[p]

\* C35: every separator K[i] of every internal node is the smallest key stored
\* below the child C[i+1], whatever inserts were made (of keys below all keys of
\* the tree, of keys already there, with splits of internal nodes); get, the
\* optimistic attempt and the pessimistic descent go from an internal node to the
\* child that has as many separators before it as are smaller than or equal to
\* the key: a key equal to a separator goes to the right of it.
C35_SeparatorIsMinOfRight ==
    /\ [](\A id \in Subtree(Root) : ~nodes[id].leaf =>
             \A i \in 1..Len(nodes[id].keys) :
                 /\ nodes[id].keys[i] \in SubtreeKeys(nodes[id].children[i + 1])
                 /\ \A k \in SubtreeKeys(nodes[id].children[i + 1]) :
                       nodes[id].keys[i] <= k)
    /\ [][\A p \in Procs : RoutedStep(p) =>
             LET n == nodes[proc[p].cur]
                 before == Cardinality({i \in 1..Len(n.keys) : n.keys[i] <= proc[p].key})
             IN /\ proc'[p].pc = proc[p].pc
                /\ proc'[p].cur = n.children[before + 1]]_vars

\* the key 5, below all keys of the tree, has split the root leaf 10, 20, 30; a
\* task with the key 20, equal to the separator, has been sent to the right
\* child, the leaf 20, 30
C35_Witness ==
    /\ nodes[Root].keys = <<20>>
    /\ 5 \in SubtreeKeys(nodes[Root].children[1])
    /\ \E p \in Procs :
          /\ proc[p].key = 20 /\ proc[p].pc \in {"g_desc", "o_leaf", "p_desc"}
          /\ proc[p].cur = nodes[Root].children[2]
          /\ 20 \in SubtreeKeys(proc[p].cur)

\* the tree holds no half of an insert: every internal node has one child more
\* than keys, the keys of a node ascend and bound the keys below its children,
\* the leaves are at one depth, hold the keys put and are chained in key order
NoPartialMutation ==
    /\ \A id \in Subtree(Root) :
          /\ StrictlyAscending(nodes[id].keys)
          /\ StrictlyAscending(EntryKeys(nodes[id].entries))
          /\ ~nodes[id].leaf =>
                /\ Len(nodes[id].children) = Len(nodes[id].keys) + 1
                /\ \A i \in 1..Len(nodes[id].keys) :
                      /\ \A k \in SubtreeKeys(nodes[id].children[i]) : k < nodes[id].keys[i]
                      /\ \A k \in SubtreeKeys(nodes[id].children[i + 1]) :
                            k >= nodes[id].keys[i]
    /\ Cardinality(LeafDepths(Root, 0)) = 1
    /\ SubtreeKeys(Root) = Stored
    /\ LET chain == Chain(Leftmost(Root), Len(nodes))
       IN /\ nodes[Last(chain)].next = NoLink
          /\ Range(chain) = {id \in Subtree(Root) : nodes[id].leaf}

\* C36: an insert cancelled while it waits for a latch leaves the nodes as they
\* are and holds no guard afterwards.  Every step of an insert leaves the nodes
\* as they are or is the last step of the insert and brings its entire effect,
\* the entry put and the tree whole again: no await lies between the change of
\* the leaf and the last change of a parent or of the root, so no cancellation
\* and no other task finds the tree between them.
C36_CancelAllOrNothing ==
    /\ [][\A p \in Procs :
             /\ (proc[p].op = "insert" /\ proc'[p].op = "cancelled") =>
                   /\ nodes' = nodes
                   /\ proc'[p].guards = <<>> /\ proc'[p].prev = NoLink
                   /\ proc'[p].pc = "idle"
             /\ InsertStep(p) =>
                   \/ nodes' = nodes
                   \/ /\ proc'[p].pc = "idle" /\ proc'[p].op = "insert"
                      /\ proc'[p].guards = <<>>
                      /\ EntryOf(nodes', proc[p].key) =
                             {[key |-> proc[p].key, value |-> proc[p].value]}]_vars
    /\ []NoPartialMutation
    /\ [](\A p \in Procs : proc[p].pc = "idle" =>
             (proc[p].guards = <<>> /\ proc[p].prev = NoLink))

\* an insert was cancelled while another task was in flight: its chunk is
\* written, its key is not in the tree; the other task's insert of 115, which
\* splits a leaf and the node above it, has returned
C36_Witness ==
    \E p, q \in Procs :
        /\ proc[p].op = "cancelled" /\ proc[p].pc = "idle"
        /\ proc[p].key \notin SubtreeKeys(Root)
        /\ called[proc[p].key].kind = "Ok"
        /\ proc[q].op = "insert" /\ proc[q].pc = "idle" /\ q # p
        /\ proc[q].key = 115 /\ 115 \in SubtreeKeys(Root)
        /\ overlapped

\* the writes that went into segment n, by their place in the history
WritesInto(n) == {i \in 1..Len(handles) : handles[i].handle.path = n}

\* C37: every chunk write starts at an offset below max_file_size, so a segment
\* is longer than max_file_size by less than the size of the last value written
\* into it; the segment index never goes down and goes up by one at a time; the
\* cursor goes back (to 0, before the write) only when the index goes up, and a
\* write into the same segment moves it forward by the size of the value.
C37_SegmentBound ==
    /\ [][handles' # handles =>
             LET h == Last(handles').handle
                 b == Last(handles').bytes
             IN /\ h.offset < bplus.max_file_size
                /\ file_number' \in {file_number, file_number + 1}
                /\ file_number' = file_number =>
                       (h.offset = offset /\ offset' = offset + Len(b))
                /\ file_number' = file_number + 1 =>
                       (h.offset = 0 /\ offset' = Len(b))
                /\ offset' < offset => file_number' = file_number + 1]_vars
    /\ [][file_number' >= file_number]_vars
    /\ [](\A n \in 0..(Len(files) - 1) :
             Len(files[n + 1]) > bplus.max_file_size =>
                 /\ WritesInto(n) # {}
                 /\ LET last == CHOOSE i \in WritesInto(n) : \A j \in WritesInto(n) : j <= i
                    IN Len(files[n + 1]) - bplus.max_file_size < handles[last].handle.size)

\* segment 0 has grown beyond max_file_size by a write that started below it;
\* the next write, of no bytes, has rotated and left the cursor at 0
C37_Witness ==
    /\ Len(handles) = 3
    /\ handles[2].handle.path = 0 /\ handles[2].handle.offset = max_file_size - 1
    /\ Len(files[1]) = max_file_size + 2
    /\ handles[3].bytes = <<>> /\ handles[3].handle = ChunkHandler(1, 0, 0)
    /\ file_number = 1 /\ offset = 0

\* the step of BPlus::new
Constructed == nodes = <<>> /\ nodes' # <<>>

\* C38: BPlus::new(t, dir) makes the directory hold segment "0" when it did not,
\* gives the tree an empty leaf as root, segment index 0 and offset 0, a handle of
\* segment "0" to write through, and leaves the bytes of every segment that was
\* in the directory as they were.
C38_NewKeepsSegments ==
    [][Constructed =>
          /\ nodes' = <<Leaf(<<>>, NoLink)>>
          /\ t' \in 1..3
          /\ file_number' = 0 /\ offset' = 0
          /\ bplus'.current_file = "create"
          /\ Len(files') >= 1
          /\ files = <<>> => files' = << <<>> >>
          /\ \A n \in 1..Len(files) : files'[n] = files[n]]_vars

\* a tree was constructed on the directory of two segments: segment "0", which
\* held three bytes, holds none, and no chunk is written yet
C38_SegmentTruncated ==
    /\ nodes = <<Leaf(<<>>, NoLink)>>
    /\ handles = <<>>
    /\ files = << <<>>, <<2>> >>

\* C39: with t = 1, inserts made one after another, of any keys in any order,
\* all return (none panics), and get returns for every inserted key the bytes of
\* its last insert; after the inserts 1..10, get(5) returns the value of 5.
C39_MinimalDegree ==
    /\ t = 1
    /\ proc[1].pc # "panicked"
    /\ (proc[1].pc = "idle" /\ proc[1].op = "get") => proc[1].res = called[proc[1].key]
    /\ proc[1].pc = "idle" => \A k \in DOMAIN called : get_from(Root, k) = called[k]

\* the keys 1..10 are in the tree, a root over ten leaves of one entry, and
\* get(5) has returned the value of 5
C39_Witness ==
    /\ 1..10 \subseteq Stored
    /\ Len(nodes[Root].keys) = 9
    /\ \A i \in 1..10 : Len(nodes[nodes[Root].children[i]].entries) = 1
    /\ proc[1].pc = "idle" /\ proc[1].op = "get" /\ proc[1].key = 5
    /\ proc[1].res = called[5] /\ proc[1].res.kind = "Ok"

\* C40: in the tree of BPlus.rs with t = 2, after any insert and delete calls
\* with distinct keys, in any order, find(k) returns the handler k was inserted
\* with when k was inserted and not deleted afterwards, and None otherwise.
C40_FindAfterInsertDelete ==
    \A k \in 0..MaxKey : find(bplus_rs, k) = calls_rs.present[k]

\* the keys 3, 2, 1 were inserted in this order: the leaf holds 1, 3 and the
\* filler 0, and find(2) has returned None
C40_KeyOverwritten ==
    /\ calls_rs.inserted = {1, 2, 3} /\ calls_rs.deleted = {}
    /\ bplus_rs.root.keys = <<1, 3, 0>>
    /\ calls_rs.op = "find" /\ calls_rs.key = 2 /\ calls_rs.res = None

====
